---- MODULE Spec2Model ----
(***************************************************************************)
(* The single-step execution engine of                                     *)
(* dagster/core/execution/plan/execute_step.py as a state machine.         *)
(*                                                                         *)
(* core_dagster_event_sequence_for_step is a chain of Python generators.   *)
(* Every action below is one segment of that chain: the code that runs     *)
(* between two suspension points (a yield, a call of a collaborator, a     *)
(* raise).  The collaborators (input sources, the compute function, the    *)
(* type checker, the IO manager, the type materializer) are black boxes    *)
(* whose results are drawn from small sets.                                *)
(***************************************************************************)
EXTENDS Integers, Sequences, FiniteSets, TLC

VARIABLES
    \* ---- the step and its collaborators (fixed during one execution)
    prior_attempt_count,      \* argument of core_dagster_event_sequence_for_step
    step_inputs,              \* step_context.step.step_inputs
    step_outputs,             \* step_context.step.step_outputs with their definitions
    compute_fn,               \* which compute function the solid has
    io_manager,               \* which IO manager handles the outputs
    definition_asset,         \* output_def.get_asset_key_and_partitions(...)
    manager_asset,            \* output_manager.experimental_internal_get_output_asset_key_and_partitions(...)
    type_materializer_specs,  \* per level of the solid handle: output names with a materializer spec
    output_capture,           \* step_context.output_capture
    \* ---- the generators' local state
    pc,                       \* where the generator chain is suspended
    failure,                  \* the exception that left the generator, "none" while it runs
    events,                   \* the DagsterEvents yielded so far, in order
    li,                       \* index into step_inputs of the input being loaded
    lpos,                     \* position in the current input source's sequence
    inputs,                   \* the dict `inputs` (names, in insertion order)
    input_assets,             \* the list `input_assets`
    ci,                       \* index into inputs of the input being type checked
    cur,                      \* the user event / output being processed
    produced,                 \* the values pulled from the compute function so far
    forwarded,                \* the outputs the classifier yielded so far
    seen_outputs,             \* seen_outputs of the classifier
    seen_mapping_keys,        \* seen_mapping_keys of the classifier
    cls,                      \* the classifier's position: "loop" (line 69) or "post" (line 120)
    post_idx,                 \* index into step_outputs of the post-exhaustion loop
    pending,                  \* yields (and a final raise) of the running sub-generator, not yet pulled
    level,                    \* index of the solid handle level in _create_type_materializations
    handle_output_calls,      \* the handles handle_output was invoked for, in order
    type_check_calls,         \* what type_check was invoked for and what it did, in order
    stored,                   \* the output and the manager's result of the last complete store
    handle_output_res,        \* what the last invocation of handle_output returned or raised
    user_exception,           \* the exception user code raised, and the boundary it was raised in
    \* ---- _dedup_asset_partitions applied on its own
    dedup_pc,                 \* which applications have been made
    dedup_input,              \* the argument
    deduped,                  \* _dedup_asset_partitions(asset_partitions)
    deduped_again,            \* _dedup_asset_partitions(deduped)
    reordered,                \* a reordering of asset_partitions
    deduped_reordered         \* _dedup_asset_partitions(reordered)

vars == <<prior_attempt_count, step_inputs, step_outputs, compute_fn, io_manager,
          definition_asset, manager_asset, type_materializer_specs, output_capture,
          pc, failure, events, li, lpos, inputs, input_assets, ci, cur, produced,
          forwarded, seen_outputs, seen_mapping_keys, cls, post_idx, pending, level,
          handle_output_calls, type_check_calls, stored, handle_output_res, user_exception,
          dedup_pc, dedup_input, deduped, deduped_again, reordered, deduped_reordered>>

dedup_vars == <<dedup_pc, dedup_input, deduped, deduped_again, reordered,
                deduped_reordered>>

env_vars == <<prior_attempt_count, step_inputs, step_outputs, compute_fn, io_manager,
              definition_asset, manager_asset, type_materializer_specs>>

---------------------------------------------------------------------------
(* Bounds of the model *)

\* the compute function yields at most this many values
MaxUserEvents == 3
\* prior_attempt_count ranges over 0..MaxAttempts
MaxAttempts == 1
\* handle_output returns at most this many items
MaxStoreItems == 2

---------------------------------------------------------------------------
(* Values *)

None == "None"

Range(s) == {s[i] : i \in 1..Len(s)}

\* Python's Failure and RetryRequested, and any other exception user code raises
ControlFlowExceptions == {"Failure", "RetryRequested"}
UserExceptions == {"Exception"} \cup ControlFlowExceptions

\* user_code_error_boundary with no control flow exceptions: everything is wrapped
user_code_error_boundary_WrapAll(error_cls, control_flow_exceptions, exc) == error_cls

\* with user_code_error_boundary(error_cls, ..., control_flow_exceptions=[...]):
\* the exception that leaves the boundary when `exc` is raised inside it
user_code_error_boundary(error_cls, control_flow_exceptions, exc) ==
    IF exc \in control_flow_exceptions THEN exc ELSE error_cls

\* AssetPartitions(asset_key, partitions)
AssetPartitions(k, ps) == [asset_key |-> k, partitions |-> ps]

\* EventMetadataEntry and PartitionSpecificMetadataEntry(partition, entry)
EventMetadataEntry(l) == [kind |-> "EventMetadataEntry", partition |-> None, label |-> l]
PartitionSpecificMetadataEntry(p, l) ==
    [kind |-> "PartitionSpecificMetadataEntry", partition |-> p, label |-> l]
\* entry.entry of a PartitionSpecificMetadataEntry
InnerEntry(entry) == EventMetadataEntry(entry.label)

\* the values a compute function yields
Output(n, m) ==
    [kind |-> "Output", output_name |-> n, mapping_key |-> None, value |-> "value",
     metadata_entries |-> m]
DynamicOutput(n, k, m) ==
    [kind |-> "DynamicOutput", output_name |-> n, mapping_key |-> k, value |-> "value",
     metadata_entries |-> m]
UserMaterialization ==
    [kind |-> "AssetMaterialization", output_name |-> None, mapping_key |-> None,
     value |-> None, metadata_entries |-> <<>>]
UserExpectationResult ==
    [kind |-> "ExpectationResult", output_name |-> None, mapping_key |-> None,
     value |-> None, metadata_entries |-> <<>>]
\* Output(output_name=step_output_def.name, value=None), line 129
ImplicitOutput(n) ==
    [kind |-> "Output", output_name |-> n, mapping_key |-> None, value |-> None,
     metadata_entries |-> <<>>]
NoEvent ==
    [kind |-> None, output_name |-> None, mapping_key |-> None, value |-> None,
     metadata_entries |-> <<>>]

IsOutput(e) == e.kind \in {"Output", "DynamicOutput"}

\* a DagsterEvent; name and mapping_key identify the input or the output handle an
\* event belongs to, origin says which code yielded a materialization
Event(type) ==
    [type |-> type, name |-> None, mapping_key |-> None, success |-> TRUE,
     asset_key |-> None, partition |-> None, metadata |-> <<>>,
     input_assets |-> <<>>, origin |-> None, attempts |-> 0]

\* an entry of `pending`: an event to yield, or an exception to raise
Yield(e) == [raises |-> "none", event |-> e]
Raise(x) == [raises |-> x, event |-> Event(None)]

---------------------------------------------------------------------------
(* The steps and collaborators the model is run on *)

StepOutput(n, d, o, t) == [name |-> n, is_dynamic |-> d, optional |-> o, nothing |-> t]
StepOutputDefs(n) == {StepOutput(n, d, o, t) : d \in BOOLEAN, o \in BOOLEAN, t \in BOOLEAN}

\* every step with at most two declared outputs, "result" then "log"
StepOutputChoices ==
    {<<>>} \cup {<<a>> : a \in StepOutputDefs("result")}
           \cup {<<a, b>> : a \in StepOutputDefs("result"), b \in StepOutputDefs("log")}

OutputNames == {"result", "log", "bogus"}
MappingKeys == {"a", "b"}

StepInput(n, t, le, as) == [name |-> n, nothing |-> t, load_events |-> le, assets |-> as]

StepInputChoices ==
    { <<>>,
      <<StepInput("a", FALSE, 0, <<>>)>>,
      <<StepInput("a", FALSE, 1, <<AssetPartitions("t1", <<"p1">>)>>),
        StepInput("b", FALSE, 0, <<AssetPartitions("t2", <<>>),
                                   AssetPartitions("t1", <<"p2">>)>>)>>,
      <<StepInput("a", TRUE, 1, <<AssetPartitions("t1", <<"p1">>)>>),
        StepInput("b", FALSE, 1, <<AssetPartitions("t2", <<>>)>>)>> }

\* the values a compute function can yield
UserEvents(fn) ==
    IF fn = "plain"
    THEN {Output(n, <<>>) : n \in OutputNames}
         \cup {DynamicOutput("result", k, <<>>) : k \in MappingKeys}
         \cup {DynamicOutput("log", "a", <<>>)}
         \cup {UserMaterialization, UserExpectationResult}
    ELSE {Output("result", m) :
             m \in { <<>>,
                     <<PartitionSpecificMetadataEntry("p2", "m2")>>,
                     <<EventMetadataEntry("m1"),
                       PartitionSpecificMetadataEntry("p1", "m2")>> }}
         \cup {UserMaterialization}

\* what dagster_type.type_check does: raises, or returns a TypeCheck or something else
TypeCheckReturn(is_tc, ok) == [raises |-> "none", is_TypeCheck |-> is_tc, success |-> ok,
                               description |-> "checked"]
TypeCheckOutcomes ==
    {TypeCheckReturn(TRUE, TRUE), TypeCheckReturn(TRUE, FALSE), TypeCheckReturn(FALSE, TRUE)}
    \cup {[raises |-> x, is_TypeCheck |-> FALSE, success |-> FALSE, description |-> None] :
             x \in UserExceptions}

\* the items handle_output can return: an AssetMaterialization, a metadata entry, something
\* else, or (a generator) an exception raised while it is iterated
StoreItem(k, p, l) == [kind |-> k, partition |-> p, label |-> l]
StoreItems ==
    { StoreItem("AssetMaterialization", None, "mm"),
      StoreItem("AssetMaterialization", None, "mm2"),
      EventMetadataEntry("m3"),
      PartitionSpecificMetadataEntry("p1", "m4"),
      PartitionSpecificMetadataEntry("p3", "m4"),
      StoreItem("other", None, "x"),
      StoreItem("raise", None, "Exception") }

SeqsUpTo(S, n) == UNION {[1..k -> S] : k \in 0..n}

\* what handle_output does: raises, returns None, or returns a sequence of items (an
\* exception raised while the sequence is iterated ends it)
HandleOutputReturn(is_none, items) == [raises |-> "none", is_none |-> is_none, items |-> items]
HandleOutputOutcomes(mgr) ==
    {[raises |-> x, is_none |-> TRUE, items |-> <<>>] : x \in UserExceptions}
    \cup {HandleOutputReturn(TRUE, <<>>)}
    \cup IF mgr = "plain"
         THEN {HandleOutputReturn(FALSE, <<StoreItem("other", None, "x")>>)}
         ELSE {HandleOutputReturn(FALSE, s) :
                  s \in {t \in SeqsUpTo(StoreItems, MaxStoreItems) :
                            \A i \in 1..(Len(t) - 1) : t[i].kind # "raise"}}

\* what materialize_runtime_values does: raises, or returns a sequence of items
TypeMaterializerOutcomes ==
    {[raises |-> x, items |-> <<>>] : x \in UserExceptions}
    \cup {[raises |-> "none", items |-> s] :
             s \in { <<"AssetMaterialization">>, <<"other">>,
                     <<"AssetMaterialization", "other">> }}

NoAsset == <<>>

\* one invocation of dagster_type.type_check: for an input or an output, and what it did
TypeCheckCall(what, n, k, tc) == [what |-> what, name |-> n, mapping_key |-> k, outcome |-> tc]

\* an exception of user code and the call it was raised in; NoException before any
UserException(where, x) == [raised_in |-> where, exc |-> x]
NoException == UserException(None, None)

\* before the first complete store
NotStored == [output |-> NoEvent, handled |-> HandleOutputReturn(TRUE, <<>>)]
Scenario(pa, si, so, fn, mgr, da, ma, tm, oc) ==
    [prior_attempt_count |-> pa, step_inputs |-> si, step_outputs |-> so,
     compute_fn |-> fn, io_manager |-> mgr, definition_asset |-> da, manager_asset |-> ma,
     type_materializer_specs |-> tm, output_capture |-> oc]

NoCapture == [enabled |-> FALSE, entries |-> {}]
EmptyCapture == [enabled |-> TRUE, entries |-> {}]

\* every declaration of the outputs, with nothing else configured
OutputScenarios ==
    {Scenario(0, <<>>, so, "plain", "plain", NoAsset, NoAsset, <<{}>>, NoCapture) :
        so \in StepOutputChoices}

\* every input configuration and attempt count, with one required output
InputScenarios ==
    {Scenario(pa, si, <<StepOutput("result", FALSE, FALSE, FALSE)>>, "plain", "plain",
              NoAsset, NoAsset, <<{}>>, oc) :
        pa \in 0..MaxAttempts, si \in StepInputChoices, oc \in {NoCapture, EmptyCapture}}

\* every asset and metadata configuration, with one required output: once with no input
\* and no type materializer, once with an input that claims an asset and with type
\* materializer specs at two levels of the solid handle
StoreScenarios ==
    {Scenario(0, cfg.si, <<StepOutput("result", FALSE, FALSE, FALSE)>>, "rich", "rich",
              da, ma, cfg.tm, EmptyCapture) :
        cfg \in {[si |-> <<>>, tm |-> <<{}>>],
                 [si |-> <<StepInput("a", FALSE, 0, <<AssetPartitions("t1", <<"p1">>)>>)>>,
                  tm |-> <<{"result"}, {}, {"result"}>>]},
        da \in {NoAsset, <<AssetPartitions("table", <<>>)>>,
                <<AssetPartitions("table", <<"p1", "p2">>)>>},
        ma \in {NoAsset, <<AssetPartitions("mtable", <<"p1">>)>>}}

\* two required outputs, each stored with the materializations of a partitioned asset of
\* its definition, the first followed by the events of a type materializer
PullScenarios ==
    {Scenario(0, <<>>, <<StepOutput("result", FALSE, FALSE, FALSE),
                         StepOutput("log", FALSE, FALSE, FALSE)>>, "plain", "plain",
              <<AssetPartitions("table", <<"p1", "p2">>)>>, NoAsset, <<{"result"}>>,
              NoCapture)}

Scenarios == OutputScenarios \cup InputScenarios \cup StoreScenarios \cup PullScenarios

---------------------------------------------------------------------------
(* _dedup_asset_partitions, lines 430-444 *)

RECURSIVE DedupKeys(_)
\* the keys of key_partition_mapping, in insertion order
DedupKeys(aps) ==
    IF aps = <<>> THEN <<>>
    ELSE LET front == DedupKeys(SubSeq(aps, 1, Len(aps) - 1))
             k == aps[Len(aps)].asset_key
         IN IF k \in Range(front) THEN front ELSE Append(front, k)

\* key_partition_mapping[k] after the loop
DedupPartitions(aps, k) ==
    UNION {Range(aps[i].partitions) : i \in {j \in 1..Len(aps) : aps[j].asset_key = k}}

\* list(ps): the elements of a set in any order
ListsOf(S) == {s \in [1..Cardinality(S) -> S] : Range(s) = S}

\* _dedup_asset_partitions with a later claim of a key replacing the earlier ones
dedup_asset_partitions_LastClaimWins(aps) ==
    LET keys == DedupKeys(aps)
        last(k) == CHOOSE i \in 1..Len(aps) :
                      /\ aps[i].asset_key = k
                      /\ \A j \in (i + 1)..Len(aps) : aps[j].asset_key # k
    IN {[i \in 1..Len(keys) |-> AssetPartitions(keys[i], aps[last(keys[i])].partitions)]}

\* _dedup_asset_partitions with a claim of the whole asset overriding the partitions the
\* other claims of the key give
dedup_asset_partitions_WholeAssetWins(aps) ==
    LET keys == DedupKeys(aps)
        whole(k) == \E i \in 1..Len(aps) : aps[i].asset_key = k /\ aps[i].partitions = <<>>
        ps(k) == IF whole(k) THEN {} ELSE DedupPartitions(aps, k)
    IN {r \in [1..Len(keys) -> {AssetPartitions(k, l) :
                                   k \in Range(keys),
                                   l \in UNION {ListsOf(ps(kk)) : kk \in Range(keys)}}] :
           \A i \in 1..Len(keys) :
               /\ r[i].asset_key = keys[i]
               /\ Range(r[i].partitions) = ps(keys[i])
               /\ Len(r[i].partitions) = Cardinality(ps(keys[i]))}

\* the lists _dedup_asset_partitions can return (list(ps) has no fixed order)
_dedup_asset_partitions(aps) ==
    LET keys == DedupKeys(aps)
    IN {r \in [1..Len(keys) -> {AssetPartitions(k, l) :
                                   k \in Range(keys),
                                   l \in UNION {ListsOf(DedupPartitions(aps, kk)) :
                                                   kk \in Range(keys)}}] :
           \A i \in 1..Len(keys) :
               /\ r[i].asset_key = keys[i]
               /\ Range(r[i].partitions) = DedupPartitions(aps, keys[i])
               /\ Len(r[i].partitions) = Cardinality(DedupPartitions(aps, keys[i]))}

---------------------------------------------------------------------------
(* Initial state *)

Init ==
    /\ \E sc \in Scenarios :
        /\ prior_attempt_count = sc.prior_attempt_count
        /\ step_inputs = sc.step_inputs
        /\ step_outputs = sc.step_outputs
        /\ compute_fn = sc.compute_fn
        /\ io_manager = sc.io_manager
        /\ definition_asset = sc.definition_asset
        /\ manager_asset = sc.manager_asset
        /\ type_materializer_specs = sc.type_materializer_specs
        /\ output_capture = sc.output_capture
    /\ pc = "start"
    /\ failure = "none"
    /\ events = <<>>
    /\ li = 1
    /\ lpos = 0
    /\ inputs = <<>>
    /\ input_assets = <<>>
    /\ ci = 1
    /\ cur = NoEvent
    /\ produced = <<>>
    /\ forwarded = <<>>
    /\ seen_outputs = {}
    /\ seen_mapping_keys = [n \in OutputNames |-> {}]
    /\ cls = "loop"
    /\ post_idx = 1
    /\ pending = <<>>
    /\ level = 1
    /\ handle_output_calls = <<>>
    /\ type_check_calls = <<>>
    /\ stored = NotStored
    /\ handle_output_res = HandleOutputReturn(TRUE, <<>>)
    /\ user_exception = NoException
    /\ dedup_pc = "idle"
    /\ dedup_input = <<>>
    /\ deduped = <<>>
    /\ deduped_again = <<>>
    /\ reordered = <<>>
    /\ deduped_reordered = <<>>

\* an exception leaves the generator: it is finished and yields nothing more
Raised(x) ==
    /\ failure' = x
    /\ pc' = "raised"

---------------------------------------------------------------------------
(* core_dagster_event_sequence_for_step, lines 261-305: start and inputs *)

\* StepStart with the start event yielded whatever prior_attempt_count is
StepStart_AlwaysStart ==
    /\ pc = "start"
    /\ events' = Append(events, Event("STEP_START"))
    /\ pc' = "load"
    /\ UNCHANGED <<dedup_vars, env_vars, output_capture, failure, li, lpos, inputs, input_assets, ci, cur,
                   produced, forwarded, seen_outputs, seen_mapping_keys, cls, post_idx,
                   pending, level, handle_output_calls, type_check_calls, stored,
                   handle_output_res, user_exception>>

\* lines 272-278
StepStart ==
    /\ pc = "start"
    /\ events' = Append(events,
                        IF prior_attempt_count > 0
                        THEN [Event("STEP_RESTARTED") EXCEPT !.attempts = prior_attempt_count]
                        ELSE Event("STEP_START"))
    /\ pc' = "load"
    /\ UNCHANGED <<dedup_vars, env_vars, output_capture, failure, li, lpos, inputs, input_assets, ci, cur,
                   produced, forwarded, seen_outputs, seen_mapping_keys, cls, post_idx,
                   pending, level, handle_output_calls, type_check_calls,
                   stored,
                   handle_output_res, user_exception>>

\* LoadInputSkipNothing that asks the skipped input for its asset claims
LoadInputSkipNothing_ClaimsAssets ==
    /\ pc = "load"
    /\ li <= Len(step_inputs)
    /\ step_inputs[li].nothing
    /\ li' = li + 1
    /\ input_assets' = input_assets \o step_inputs[li].assets
    /\ UNCHANGED <<dedup_vars, env_vars, output_capture, pc, failure, events, lpos, inputs,
                   ci, cur, produced, forwarded, seen_outputs, seen_mapping_keys, cls,
                   post_idx, pending, level, handle_output_calls, type_check_calls,
                   stored,
                   handle_output_res, user_exception>>

\* lines 280-285: an input of type Nothing is skipped
LoadInputSkipNothing ==
    /\ pc = "load"
    /\ li <= Len(step_inputs)
    /\ step_inputs[li].nothing
    /\ li' = li + 1
    /\ UNCHANGED <<dedup_vars, env_vars, output_capture, pc, failure, events, lpos, inputs, input_assets,
                   ci, cur, produced, forwarded, seen_outputs, seen_mapping_keys, cls,
                   post_idx, pending, level, handle_output_calls, type_check_calls,
                   stored,
                   handle_output_res, user_exception>>

\* lines 287-289: the asset claims are collected and the source is asked for its sequence
LoadInputBegin ==
    /\ pc = "load"
    /\ li <= Len(step_inputs)
    /\ ~step_inputs[li].nothing
    /\ lpos = 0
    /\ input_assets' = input_assets \o step_inputs[li].assets
    /\ lpos' = 1
    /\ UNCHANGED <<dedup_vars, env_vars, output_capture, pc, failure, events, li, inputs, ci, cur,
                   produced, forwarded, seen_outputs, seen_mapping_keys, cls, post_idx,
                   pending, level, handle_output_calls, type_check_calls,
                   stored,
                   handle_output_res, user_exception>>

\* lines 289-294: one pull of the source's sequence; its events are forwarded and its
\* value is kept; nothing isolates an exception of the source
LoadInputNext ==
    /\ pc = "load"
    /\ li <= Len(step_inputs)
    /\ lpos >= 1
    /\ \/ /\ lpos <= step_inputs[li].load_events
          /\ events' = Append(events, [Event("LOADED_INPUT") EXCEPT
                                          !.name = step_inputs[li].name])
          /\ lpos' = lpos + 1
          /\ UNCHANGED <<pc, failure, li, inputs>>
       \/ /\ lpos = step_inputs[li].load_events + 1
          /\ inputs' = Append(inputs, step_inputs[li].name)
          /\ li' = li + 1
          /\ lpos' = 0
          /\ UNCHANGED <<pc, failure, events>>
       \/ /\ \E x \in UserExceptions : Raised(x)
          /\ UNCHANGED <<events, li, lpos, inputs>>
    /\ UNCHANGED <<dedup_vars, env_vars, output_capture, input_assets, ci, cur, produced, forwarded,
                   seen_outputs, seen_mapping_keys, cls, post_idx, pending, level,
                   handle_output_calls, type_check_calls,
                   stored,
                   handle_output_res, user_exception>>

\* line 296: the loop over the inputs is over
LoadInputsDone ==
    /\ pc = "load"
    /\ li > Len(step_inputs)
    /\ pc' = "check_inputs"
    /\ UNCHANGED <<dedup_vars, env_vars, output_capture, failure, events, li, lpos, inputs, input_assets,
                   ci, cur, produced, forwarded, seen_outputs, seen_mapping_keys, cls,
                   post_idx, pending, level, handle_output_calls, type_check_calls,
                   stored,
                   handle_output_res, user_exception>>

---------------------------------------------------------------------------
(* _do_type_check, lines 141-155 *)

\* _do_type_check without the isinstance test
do_type_check_Unchecked(returned) == returned

_do_type_check(returned) ==
    IF ~returned.is_TypeCheck
    THEN [raises |-> "none", is_TypeCheck |-> TRUE, success |-> FALSE,
          description |-> "Type checks must return TypeCheck"]
    ELSE returned

---------------------------------------------------------------------------
(* _type_checked_event_sequence_for_input, lines 175-207 *)

\* lines 184-196: the check inside its boundary, then the STEP_INPUT event
CheckInput ==
    /\ pc = "check_inputs"
    /\ ci <= Len(inputs)
    /\ \E tc \in TypeCheckOutcomes :
        /\ type_check_calls' = Append(type_check_calls,
                                      TypeCheckCall("input", inputs[ci], None, tc))
        /\ user_exception' = IF tc.raises # "none"
                             THEN UserException("input type_check", tc.raises)
                             ELSE user_exception
        /\ IF tc.raises # "none"
           THEN /\ Raised(user_code_error_boundary("DagsterTypeCheckError", {}, tc.raises))
                /\ UNCHANGED events
           ELSE LET type_check == _do_type_check(tc)
                IN /\ events' = Append(events, [Event("STEP_INPUT") EXCEPT
                                                   !.name = inputs[ci],
                                                   !.success = type_check.success])
                   /\ pc' = IF type_check.success THEN "input_checked"
                            ELSE "input_check_failed"
                   /\ UNCHANGED failure
    /\ UNCHANGED <<dedup_vars, env_vars, output_capture, li, lpos, inputs, input_assets, ci, cur,
                   produced, forwarded, seen_outputs, seen_mapping_keys, cls, post_idx,
                   pending, level, handle_output_calls, stored, handle_output_res>>

\* lines 198-207: resumed after the event of a failed check
CheckInputDidNotPass ==
    /\ pc = "input_check_failed"
    /\ Raised("DagsterTypeCheckDidNotPass")
    /\ UNCHANGED <<dedup_vars, env_vars, output_capture, events, li, lpos, inputs, input_assets, ci, cur,
                   produced, forwarded, seen_outputs, seen_mapping_keys, cls, post_idx,
                   pending, level, handle_output_calls, type_check_calls,
                   stored,
                   handle_output_res, user_exception>>

\* lines 296-300: resumed after the event of a passed check, the next input
CheckInputNext ==
    /\ pc = "input_checked"
    /\ ci' = ci + 1
    /\ pc' = "check_inputs"
    /\ UNCHANGED <<dedup_vars, env_vars, output_capture, failure, events, li, lpos, inputs, input_assets,
                   cur, produced, forwarded, seen_outputs, seen_mapping_keys, cls, post_idx,
                   pending, level, handle_output_calls, type_check_calls,
                   stored,
                   handle_output_res, user_exception>>

\* lines 302-306: the input assets are deduplicated once, the compute phase starts
CheckInputsDone ==
    /\ pc = "check_inputs"
    /\ ci > Len(inputs)
    /\ input_assets' \in _dedup_asset_partitions(input_assets)
    /\ pc' = "compute"
    /\ UNCHANGED <<dedup_vars, env_vars, output_capture, failure, events, li, lpos, inputs, ci, cur,
                   produced, forwarded, seen_outputs, seen_mapping_keys, cls, post_idx,
                   pending, level, handle_output_calls, type_check_calls,
                   stored,
                   handle_output_res, user_exception>>

---------------------------------------------------------------------------
(* The exceptions the step raises itself *)

OutputDoesNotExist == "DagsterInvariantViolationError: output does not exist"
OutputMultipleTimes == "DagsterInvariantViolationError: output returned multiple times"
MustYieldDynamicOutput == "DagsterInvariantViolationError: must yield DynamicOutput"
NotDynamicOutputDefinition == "DagsterInvariantViolationError: did not use DynamicOutputDefinition"
MappingKeyMultipleTimes == "DagsterInvariantViolationError: mapping_key multiple times"
StepOutputNotFound == "DagsterStepOutputNotFoundError"
BothClaimAsset == "DagsterInvariantViolationError: OutputDefinition and IOManager both have AssetPartitions"
BadManagerReturn == "DagsterInvariantViolationError: IO manager returned a value of another type"
UnknownPartition == "DagsterInvariantViolationError: metadata entry for an undeclared partition"
BadMaterializerReturn == "DagsterInvariantViolationError: materialize_runtime_values returned a value of another type"
TypeCheckDidNotPass == "DagsterTypeCheckDidNotPass"

\* the failures of _step_output_error_checked_user_event_sequence
ClassificationFailures ==
    {OutputDoesNotExist, OutputMultipleTimes, MustYieldDynamicOutput,
     NotDynamicOutputDefinition, MappingKeyMultipleTimes, StepOutputNotFound}

---------------------------------------------------------------------------
(* _user_event_sequence_for_step_compute_fn, lines 597-620, pulled by the loop of
   _step_output_error_checked_user_event_sequence, line 69 *)

\* PullCompute with the boundary around the first pull only: an exception of a later
\* pull leaves the step as it was raised
PullCompute_BoundaryFirstPullOnly ==
    /\ pc = "compute"
    /\ seen_outputs' = IF IsOutput(cur) THEN seen_outputs \cup {cur.output_name}
                       ELSE seen_outputs
    /\ \/ /\ Len(produced) < MaxUserEvents
          /\ \E e \in UserEvents(compute_fn) :
                /\ produced' = Append(produced, e)
                /\ cur' = e
          /\ pc' = "classify"
          /\ UNCHANGED <<failure, cls, post_idx, user_exception>>
       \/ /\ cur' = NoEvent
          /\ cls' = "post"
          /\ post_idx' = 1
          /\ pc' = "post"
          /\ UNCHANGED <<failure, produced, user_exception>>
       \/ /\ \E x \in UserExceptions :
                /\ Raised(IF produced = <<>>
                          THEN user_code_error_boundary("DagsterExecutionStepExecutionError",
                                                        ControlFlowExceptions, x)
                          ELSE x)
                /\ user_exception' = UserException("compute", x)
          /\ UNCHANGED <<cur, produced, cls, post_idx>>
    /\ UNCHANGED <<dedup_vars, env_vars, output_capture, events, li, lpos, inputs,
                   input_assets, ci, forwarded, seen_mapping_keys, pending, level,
                   handle_output_calls, type_check_calls, stored, handle_output_res>>

\* the classifier is resumed (line 118 when it had yielded an output) and pulls the next
\* value of the compute function, inside the compute boundary
PullCompute ==
    /\ pc = "compute"
    /\ seen_outputs' = IF IsOutput(cur) THEN seen_outputs \cup {cur.output_name}
                       ELSE seen_outputs
    /\ \/ /\ Len(produced) < MaxUserEvents
          /\ \E e \in UserEvents(compute_fn) :
                /\ produced' = Append(produced, e)
                /\ cur' = e
          /\ pc' = "classify"
          /\ UNCHANGED <<failure, cls, post_idx, user_exception>>
       \/ /\ cur' = NoEvent
          /\ cls' = "post"
          /\ post_idx' = 1
          /\ pc' = "post"
          /\ UNCHANGED <<failure, produced, user_exception>>
       \/ /\ \E x \in UserExceptions :
                /\ Raised(user_code_error_boundary("DagsterExecutionStepExecutionError",
                                                   ControlFlowExceptions, x))
                /\ user_exception' = UserException("compute", x)
          /\ UNCHANGED <<cur, produced, cls, post_idx>>
    /\ UNCHANGED <<dedup_vars, env_vars, output_capture, events, li, lpos, inputs,
                   input_assets, ci, forwarded, seen_mapping_keys, pending, level,
                   handle_output_calls, type_check_calls, stored, handle_output_res>>

---------------------------------------------------------------------------
(* _step_output_error_checked_user_event_sequence, lines 52-138 *)

has_step_output(outs, n) == \E i \in 1..Len(outs) : outs[i].name = n
output_def_named(outs, n) == outs[CHOOSE i \in 1..Len(outs) : outs[i].name = n]

\* output_error without the test of seen_mapping_keys
output_error_NoMappingKeyCheck(output, outs, seen, seen_keys) ==
    IF ~has_step_output(outs, output.output_name) THEN OutputDoesNotExist
    ELSE LET output_def == output_def_named(outs, output.output_name)
         IN IF output.kind = "Output"
            THEN IF output.output_name \in seen THEN OutputMultipleTimes
                 ELSE IF output_def.is_dynamic THEN MustYieldDynamicOutput
                 ELSE "none"
            ELSE IF ~output_def.is_dynamic THEN NotDynamicOutputDefinition
                 ELSE "none"

\* output_error without the test of seen_outputs
output_error_NoMultipleTimesCheck(output, outs, seen, seen_keys) ==
    IF ~has_step_output(outs, output.output_name) THEN OutputDoesNotExist
    ELSE LET output_def == output_def_named(outs, output.output_name)
         IN IF output.kind = "Output"
            THEN IF output_def.is_dynamic THEN MustYieldDynamicOutput
                 ELSE "none"
            ELSE IF ~output_def.is_dynamic THEN NotDynamicOutputDefinition
                 ELSE IF output.mapping_key \in seen_keys[output.output_name]
                      THEN MappingKeyMultipleTimes
                 ELSE "none"

\* lines 76-114: the exception an output raises, "none" when it is forwarded
output_error(output, outs, seen, seen_keys) ==
    IF ~has_step_output(outs, output.output_name) THEN OutputDoesNotExist
    ELSE LET output_def == output_def_named(outs, output.output_name)
         IN IF output.kind = "Output"
            THEN IF output.output_name \in seen THEN OutputMultipleTimes
                 ELSE IF output_def.is_dynamic THEN MustYieldDynamicOutput
                 ELSE "none"
            ELSE IF ~output_def.is_dynamic THEN NotDynamicOutputDefinition
                 ELSE IF output.mapping_key \in seen_keys[output.output_name]
                      THEN MappingKeyMultipleTimes
                 ELSE "none"

\* lines 70-117: one value of the compute function is passed through, forwarded or refused
Classify ==
    /\ pc = "classify"
    /\ IF ~IsOutput(cur)
       THEN /\ pc' = "dispatch"
            /\ UNCHANGED <<failure, forwarded, seen_mapping_keys>>
       ELSE LET err == output_error(cur, step_outputs, seen_outputs, seen_mapping_keys)
            IN IF err # "none"
               THEN /\ Raised(err)
                    /\ UNCHANGED <<forwarded, seen_mapping_keys>>
               ELSE /\ seen_mapping_keys' =
                          IF cur.kind = "DynamicOutput"
                          THEN [seen_mapping_keys EXCEPT
                                   ![cur.output_name] = @ \cup {cur.mapping_key}]
                          ELSE seen_mapping_keys
                    /\ forwarded' = Append(forwarded, cur)
                    /\ pc' = "dispatch"
                    /\ UNCHANGED failure
    /\ UNCHANGED <<dedup_vars, env_vars, output_capture, events, li, lpos, inputs, input_assets, ci, cur,
                   produced, seen_outputs, cls, post_idx, pending, level,
                   handle_output_calls, type_check_calls,
                   stored,
                   handle_output_res, user_exception>>

\* PostLoop without the Nothing case: every missing required output raises
PostLoop_NoImplicitNothing ==
    /\ pc = "post"
    /\ post_idx <= Len(step_outputs)
    /\ LET step_output_def == step_outputs[post_idx]
       IN IF step_output_def.name \notin seen_outputs /\ ~step_output_def.optional
          THEN /\ Raised(StepOutputNotFound)
               /\ UNCHANGED <<cur, forwarded, post_idx>>
          ELSE /\ post_idx' = post_idx + 1
               /\ UNCHANGED <<pc, failure, cur, forwarded>>
    /\ UNCHANGED <<dedup_vars, env_vars, output_capture, events, li, lpos, inputs, input_assets, ci,
                   produced, seen_outputs, seen_mapping_keys, cls, pending, level,
                   handle_output_calls, type_check_calls, stored,
                   handle_output_res, user_exception>>

\* PostLoop without the test of optional
PostLoop_IgnoreOptional ==
    /\ pc = "post"
    /\ post_idx <= Len(step_outputs)
    /\ LET step_output_def == step_outputs[post_idx]
       IN IF step_output_def.name \notin seen_outputs
          THEN IF step_output_def.nothing
               THEN /\ cur' = ImplicitOutput(step_output_def.name)
                    /\ forwarded' = Append(forwarded, ImplicitOutput(step_output_def.name))
                    /\ post_idx' = post_idx + 1
                    /\ pc' = "dispatch"
                    /\ UNCHANGED failure
               ELSE /\ Raised(StepOutputNotFound)
                    /\ UNCHANGED <<cur, forwarded, post_idx>>
          ELSE /\ post_idx' = post_idx + 1
               /\ UNCHANGED <<pc, failure, cur, forwarded>>
    /\ UNCHANGED <<dedup_vars, env_vars, output_capture, events, li, lpos, inputs, input_assets, ci,
                   produced, seen_outputs, seen_mapping_keys, cls, pending, level,
                   handle_output_calls, type_check_calls, stored,
                   handle_output_res, user_exception>>

\* lines 120-138: after the compute function is exhausted, one declared output
PostLoop ==
    /\ pc = "post"
    /\ post_idx <= Len(step_outputs)
    /\ LET step_output_def == step_outputs[post_idx]
       IN IF step_output_def.name \notin seen_outputs /\ ~step_output_def.optional
          THEN IF step_output_def.nothing
               THEN /\ cur' = ImplicitOutput(step_output_def.name)
                    /\ forwarded' = Append(forwarded, ImplicitOutput(step_output_def.name))
                    /\ post_idx' = post_idx + 1
                    /\ pc' = "dispatch"
                    /\ UNCHANGED failure
               ELSE /\ Raised(StepOutputNotFound)
                    /\ UNCHANGED <<cur, forwarded, post_idx>>
          ELSE /\ post_idx' = post_idx + 1
               /\ UNCHANGED <<pc, failure, cur, forwarded>>
    /\ UNCHANGED <<dedup_vars, env_vars, output_capture, events, li, lpos, inputs, input_assets, ci,
                   produced, seen_outputs, seen_mapping_keys, cls, pending, level,
                   handle_output_calls, type_check_calls,
                   stored,
                   handle_output_res, user_exception>>

---------------------------------------------------------------------------
(* core_dagster_event_sequence_for_step, lines 310-332: dispatch and success *)

\* lines 319-320
DispatchMaterialization ==
    /\ pc = "dispatch"
    /\ cur.kind = "AssetMaterialization"
    /\ events' = Append(events, [Event("STEP_MATERIALIZATION") EXCEPT
                                    !.input_assets = <<input_assets>>,
                                    !.origin = "compute"])
    /\ pc' = "compute"
    /\ UNCHANGED <<dedup_vars, env_vars, output_capture, failure, li, lpos, inputs, input_assets, ci, cur,
                   produced, forwarded, seen_outputs, seen_mapping_keys, cls, post_idx,
                   pending, level, handle_output_calls, type_check_calls,
                   stored,
                   handle_output_res, user_exception>>

\* lines 321-322
DispatchExpectationResult ==
    /\ pc = "dispatch"
    /\ cur.kind = "ExpectationResult"
    /\ events' = Append(events, Event("STEP_EXPECTATION_RESULT"))
    /\ pc' = "compute"
    /\ UNCHANGED <<dedup_vars, env_vars, output_capture, failure, li, lpos, inputs, input_assets, ci, cur,
                   produced, forwarded, seen_outputs, seen_mapping_keys, cls, post_idx,
                   pending, level, handle_output_calls, type_check_calls,
                   stored,
                   handle_output_res, user_exception>>

\* StepSuccess with the success event yielded in a finally clause, after an exception too
StepSuccess_Finally ==
    /\ \/ pc = "post" /\ post_idx > Len(step_outputs)
       \/ pc = "raised" /\ (events = <<>> \/ events[Len(events)].type # "STEP_SUCCESS")
    /\ events' = Append(events, Event("STEP_SUCCESS"))
    /\ pc' = IF pc = "post" THEN "done" ELSE pc
    /\ UNCHANGED <<dedup_vars, env_vars, output_capture, failure, li, lpos, inputs, input_assets, ci, cur,
                   produced, forwarded, seen_outputs, seen_mapping_keys, cls, post_idx,
                   pending, level, handle_output_calls, type_check_calls, stored,
                   handle_output_res, user_exception>>

\* lines 120 and 330-332: the classifier is exhausted, the step succeeds
StepSuccess ==
    /\ pc = "post"
    /\ post_idx > Len(step_outputs)
    /\ events' = Append(events, Event("STEP_SUCCESS"))
    /\ pc' = "done"
    /\ UNCHANGED <<dedup_vars, env_vars, output_capture, failure, li, lpos, inputs, input_assets, ci, cur,
                   produced, forwarded, seen_outputs, seen_mapping_keys, cls, post_idx,
                   pending, level, handle_output_calls, type_check_calls,
                   stored,
                   handle_output_res, user_exception>>

---------------------------------------------------------------------------
(* _type_check_and_store_output, lines 335-369, and _type_check_output, lines 210-258 *)

\* StepOutputHandle without its step key: (output_name, mapping_key)
StepOutputHandle(output) == [name |-> output.output_name, mapping_key |-> output.mapping_key]

\* lines 353-354: output_capture[step_output_handle] = output.value
capture(oc, output) ==
    IF oc.enabled
    THEN [oc EXCEPT !.entries =
             {c \in @ : c.handle # StepOutputHandle(output)}
             \cup {[handle |-> StepOutputHandle(output), value |-> output.value]}]
    ELSE oc

\* lines 233-248: the STEP_OUTPUT event of a type check
step_output_event(output, type_check) ==
    [Event("STEP_OUTPUT") EXCEPT
        !.name = output.output_name,
        !.mapping_key = output.mapping_key,
        !.success = type_check.success,
        !.metadata = SelectSeq(output.metadata_entries,
                               LAMBDA entry : entry.kind = "EventMetadataEntry")]

\* TypeCheckOutput with the STEP_OUTPUT event yielded only for a failed check
TypeCheckOutput_EventOnlyOnFailure ==
    /\ pc = "dispatch"
    /\ IsOutput(cur)
    /\ output_capture' = capture(output_capture, cur)
    /\ \E tc \in TypeCheckOutcomes :
        /\ type_check_calls' = Append(type_check_calls,
                                      TypeCheckCall("output", cur.output_name,
                                                    cur.mapping_key, tc))
        /\ user_exception' = IF tc.raises # "none"
                             THEN UserException("output type_check", tc.raises)
                             ELSE user_exception
        /\ IF tc.raises # "none"
           THEN /\ Raised(user_code_error_boundary("DagsterTypeCheckError", {}, tc.raises))
                /\ UNCHANGED events
           ELSE LET type_check == _do_type_check(tc)
                IN /\ events' = IF type_check.success THEN events
                                ELSE Append(events, step_output_event(cur, type_check))
                   /\ pc' = IF type_check.success THEN "store" ELSE "output_check_failed"
                   /\ UNCHANGED failure
    /\ UNCHANGED <<dedup_vars, env_vars, li, lpos, inputs, input_assets, ci, cur, produced, forwarded,
                   seen_outputs, seen_mapping_keys, cls, post_idx, pending, level,
                   handle_output_calls, stored, handle_output_res>>

\* TypeCheckOutput with the value captured only after its type check has passed
TypeCheckOutput_CaptureAfterCheck ==
    /\ pc = "dispatch"
    /\ IsOutput(cur)
    /\ \E tc \in TypeCheckOutcomes :
        /\ type_check_calls' = Append(type_check_calls,
                                      TypeCheckCall("output", cur.output_name,
                                                    cur.mapping_key, tc))
        /\ user_exception' = IF tc.raises # "none"
                             THEN UserException("output type_check", tc.raises)
                             ELSE user_exception
        /\ IF tc.raises # "none"
           THEN /\ Raised(user_code_error_boundary("DagsterTypeCheckError", {}, tc.raises))
                /\ UNCHANGED <<events, output_capture>>
           ELSE LET type_check == _do_type_check(tc)
                IN /\ events' = Append(events, step_output_event(cur, type_check))
                   /\ pc' = IF type_check.success THEN "store" ELSE "output_check_failed"
                   /\ output_capture' = IF type_check.success
                                        THEN capture(output_capture, cur)
                                        ELSE output_capture
                   /\ UNCHANGED failure
    /\ UNCHANGED <<dedup_vars, env_vars, li, lpos, inputs, input_assets, ci, cur, produced,
                   forwarded, seen_outputs, seen_mapping_keys, cls, post_idx, pending, level,
                   handle_output_calls, stored, handle_output_res>>

\* lines 345-363, 219-248: the value is captured, checked inside the type check boundary,
\* and the STEP_OUTPUT event is yielded
TypeCheckOutput ==
    /\ pc = "dispatch"
    /\ IsOutput(cur)
    /\ output_capture' = capture(output_capture, cur)
    /\ \E tc \in TypeCheckOutcomes :
        /\ type_check_calls' = Append(type_check_calls,
                                      TypeCheckCall("output", cur.output_name,
                                                    cur.mapping_key, tc))
        /\ user_exception' = IF tc.raises # "none"
                             THEN UserException("output type_check", tc.raises)
                             ELSE user_exception
        /\ IF tc.raises # "none"
           THEN /\ Raised(user_code_error_boundary("DagsterTypeCheckError", {}, tc.raises))
                /\ UNCHANGED events
           ELSE LET type_check == _do_type_check(tc)
                IN /\ events' = Append(events, step_output_event(cur, type_check))
                   /\ pc' = IF type_check.success THEN "store" ELSE "output_check_failed"
                   /\ UNCHANGED failure
    /\ UNCHANGED <<dedup_vars, env_vars, li, lpos, inputs, input_assets, ci, cur, produced, forwarded,
                   seen_outputs, seen_mapping_keys, cls, post_idx, pending, level,
                   handle_output_calls, stored, handle_output_res>>

\* OutputDidNotPass without the raise: the failed output goes on to the store
OutputDidNotPass_NoRaise ==
    /\ pc = "output_check_failed"
    /\ pc' = "store"
    /\ UNCHANGED <<dedup_vars, env_vars, output_capture, failure, events, li, lpos, inputs, input_assets,
                   ci, cur, produced, forwarded, seen_outputs, seen_mapping_keys, cls,
                   post_idx, pending, level, handle_output_calls, type_check_calls, stored,
                   handle_output_res, user_exception>>

\* lines 250-258: resumed after the event of a failed check
OutputDidNotPass ==
    /\ pc = "output_check_failed"
    /\ Raised(TypeCheckDidNotPass)
    /\ UNCHANGED <<dedup_vars, env_vars, output_capture, events, li, lpos, inputs, input_assets, ci, cur,
                   produced, forwarded, seen_outputs, seen_mapping_keys, cls, post_idx,
                   pending, level, handle_output_calls, type_check_calls,
                   stored,
                   handle_output_res, user_exception>>

---------------------------------------------------------------------------
(* The asset partitions of an output, lines 396-427 *)

\* _asset_partitions_for_output without the raise: the definition's claim wins
asset_partitions_for_output_DefinitionWins(definition, manager) ==
    [raises |-> FALSE,
     value |-> IF definition # NoAsset THEN definition ELSE manager]

\* _asset_partitions_for_output: raises when both claim, else whichever claims
_asset_partitions_for_output(definition, manager) ==
    [raises |-> definition # NoAsset /\ manager # NoAsset,
     value |-> IF definition # NoAsset THEN definition ELSE manager]

\* _flatten_asset_partitions: the (asset_key, partition) pairs
_flatten_asset_partitions(asset_partitions) ==
    IF asset_partitions = NoAsset THEN <<>>
    ELSE IF asset_partitions[1].partitions = <<>>
         THEN <<[asset_key |-> asset_partitions[1].asset_key, partition |-> None]>>
         ELSE [i \in 1..Len(asset_partitions[1].partitions) |->
                  [asset_key |-> asset_partitions[1].asset_key,
                   partition |-> asset_partitions[1].partitions[i]]]

---------------------------------------------------------------------------
(* _store_output, lines 447-541 *)

\* first_bad_item with items of another type let through
RECURSIVE first_bad_item_OnlyRaise(_, _)
first_bad_item_OnlyRaise(items, i) ==
    IF i > Len(items) THEN 0
    ELSE IF items[i].kind = "raise" THEN i
    ELSE first_bad_item_OnlyRaise(items, i + 1)

\* lines 477-493: the index of the first item that ends the loop with an exception, or 0
RECURSIVE first_bad_item(_, _)
first_bad_item(items, i) ==
    IF i > Len(items) THEN 0
    ELSE IF items[i].kind \in {"other", "raise"} THEN i
    ELSE first_bad_item(items, i + 1)

\* merge_metadata with a targeted entry put into every partition's list
RECURSIVE merge_metadata_AllPartitions(_, _)
merge_metadata_AllPartitions(entries, metadata_mapping) ==
    IF entries = <<>> THEN [raises |-> FALSE, mapping |-> metadata_mapping]
    ELSE LET entry == Head(entries)
         IN IF entry.kind = "PartitionSpecificMetadataEntry"
            THEN IF entry.partition \notin DOMAIN metadata_mapping
                 THEN [raises |-> TRUE, mapping |-> metadata_mapping]
                 ELSE merge_metadata_AllPartitions(
                          Tail(entries),
                          [p \in DOMAIN metadata_mapping |->
                              Append(metadata_mapping[p], InnerEntry(entry))])
            ELSE merge_metadata_AllPartitions(
                     Tail(entries),
                     [p \in DOMAIN metadata_mapping |-> Append(metadata_mapping[p], entry)])

\* lines 495-514: the entries are put into the partitions' lists, in order
RECURSIVE merge_metadata(_, _)
merge_metadata(entries, metadata_mapping) ==
    IF entries = <<>> THEN [raises |-> FALSE, mapping |-> metadata_mapping]
    ELSE LET entry == Head(entries)
         IN IF entry.kind = "PartitionSpecificMetadataEntry"
            THEN IF entry.partition \notin DOMAIN metadata_mapping
                 THEN [raises |-> TRUE, mapping |-> metadata_mapping]
                 ELSE merge_metadata(Tail(entries),
                                     [metadata_mapping EXCEPT
                                         ![entry.partition] = Append(@, InnerEntry(entry))])
            ELSE merge_metadata(Tail(entries),
                                [p \in DOMAIN metadata_mapping |->
                                    Append(metadata_mapping[p], entry)])

\* lines 516-525: one materialization per (asset_key, partition) pair
asset_materialization_events(output, flat_assets, mapping, in_assets) ==
    [i \in 1..Len(flat_assets) |->
        Yield([Event("STEP_MATERIALIZATION") EXCEPT
                  !.name = output.output_name,
                  !.mapping_key = output.mapping_key,
                  !.asset_key = flat_assets[i].asset_key,
                  !.partition = flat_assets[i].partition,
                  !.metadata = mapping[flat_assets[i].partition],
                  !.input_assets = <<in_assets>>,
                  !.origin = "output"])]

\* lines 528-529: one materialization per AssetMaterialization of the manager
manager_materialization_events(output, manager_materializations, in_assets) ==
    [i \in 1..Len(manager_materializations) |->
        Yield([Event("STEP_MATERIALIZATION") EXCEPT
                  !.name = output.output_name,
                  !.mapping_key = output.mapping_key,
                  !.asset_key = manager_materializations[i].label,
                  !.input_assets = <<in_assets>>,
                  !.origin = "io_manager"])]

\* handled_output_event with the output's own entries and the targeted ones kept
handled_output_event_AllEntries(output, manager_metadata_entries) ==
    Yield([Event("HANDLED_OUTPUT") EXCEPT
              !.name = output.output_name,
              !.mapping_key = output.mapping_key,
              !.metadata = output.metadata_entries \o manager_metadata_entries])

\* lines 531-541
handled_output_event(output, manager_metadata_entries) ==
    Yield([Event("HANDLED_OUTPUT") EXCEPT
              !.name = output.output_name,
              !.mapping_key = output.mapping_key,
              !.metadata = SelectSeq(manager_metadata_entries,
                                     LAMBDA entry : entry.kind = "EventMetadataEntry")])

\* the code of _store_output up to its first yield: the exception it raises ("none" when
\* it does not), whether handle_output was invoked, and the events it goes on to yield
_store_output(output, definition, manager, handled, in_assets) ==
    LET asset_partitions == _asset_partitions_for_output(definition, manager)
        flat_assets == _flatten_asset_partitions(asset_partitions.value)
        metadata_mapping == [p \in {flat_assets[i].partition : i \in 1..Len(flat_assets)} |-> <<>>]
        bad == first_bad_item(handled.items, 1)
        manager_materializations ==
            SelectSeq(handled.items, LAMBDA elt : elt.kind = "AssetMaterialization")
        manager_metadata_entries ==
            SelectSeq(handled.items,
                      LAMBDA elt : elt.kind \in {"EventMetadataEntry",
                                                 "PartitionSpecificMetadataEntry"})
        merged == merge_metadata(output.metadata_entries \o manager_metadata_entries,
                                 metadata_mapping)
    IN IF asset_partitions.raises
       THEN [failure |-> BothClaimAsset, called |-> FALSE, yields |-> <<>>]
       ELSE IF handled.raises # "none"
       THEN [failure |-> user_code_error_boundary("DagsterExecutionHandleOutputError",
                                                  ControlFlowExceptions, handled.raises),
             called |-> TRUE, yields |-> <<>>]
       ELSE IF bad # 0
       THEN [failure |-> IF handled.items[bad].kind = "raise"
                         THEN handled.items[bad].label ELSE BadManagerReturn,
             called |-> TRUE, yields |-> <<>>]
       ELSE IF merged.raises
       THEN [failure |-> UnknownPartition, called |-> TRUE, yields |-> <<>>]
       ELSE [failure |-> "none", called |-> TRUE,
             yields |-> asset_materialization_events(output, flat_assets, merged.mapping,
                                                     in_assets)
                        \o manager_materialization_events(output, manager_materializations,
                                                          in_assets)
                        \o <<handled_output_event(output, manager_metadata_entries)>>]

\* lines 462-493: the exception the IO manager raised, in handle_output or while its
\* result was iterated
store_exception(handled) ==
    LET bad == first_bad_item(handled.items, 1)
    IN IF handled.raises # "none" THEN UserException("handle_output", handled.raises)
       ELSE IF bad # 0 /\ handled.items[bad].kind = "raise"
       THEN UserException("iteration of handle_output_res", handled.items[bad].label)
       ELSE NoException

\* StoreOutput with handle_output invoked a second time for the same output
StoreOutput_InvokedTwice ==
    /\ pc = "store"
    /\ \E handled \in HandleOutputOutcomes(io_manager) :
        LET r == _store_output(cur, definition_asset, manager_asset, handled, input_assets)
        IN /\ handle_output_calls' =
                  IF r.called
                  THEN handle_output_calls \o <<StepOutputHandle(cur), StepOutputHandle(cur)>>
                  ELSE handle_output_calls
           /\ handle_output_res' = IF r.called THEN handled ELSE handle_output_res
           /\ user_exception' = IF r.called THEN store_exception(handled)
                                ELSE user_exception
           /\ IF r.failure # "none"
              THEN /\ Raised(r.failure)
                   /\ UNCHANGED <<pending, stored>>
              ELSE /\ pending' = r.yields
                   /\ stored' = [output |-> cur, handled |-> handled]
                   /\ pc' = "yield_store"
                   /\ UNCHANGED failure
    /\ UNCHANGED <<dedup_vars, env_vars, output_capture, events, li, lpos, inputs,
                   input_assets, ci, cur, produced, forwarded, seen_outputs,
                   seen_mapping_keys, cls, post_idx, level, type_check_calls>>

\* lines 365 and 454-515: the output is handed to the IO manager
StoreOutput ==
    /\ pc = "store"
    /\ \E handled \in HandleOutputOutcomes(io_manager) :
        LET r == _store_output(cur, definition_asset, manager_asset, handled, input_assets)
        IN /\ handle_output_calls' =
                  IF r.called THEN Append(handle_output_calls, StepOutputHandle(cur))
                  ELSE handle_output_calls
           /\ handle_output_res' = IF r.called THEN handled ELSE handle_output_res
           /\ user_exception' = IF r.called THEN store_exception(handled)
                                ELSE user_exception
           /\ IF r.failure # "none"
              THEN /\ Raised(r.failure)
                   /\ UNCHANGED <<pending, stored>>
              ELSE /\ pending' = r.yields
                   /\ stored' = [output |-> cur, handled |-> handled]
                   /\ pc' = "yield_store"
                   /\ UNCHANGED failure
    /\ UNCHANGED <<dedup_vars, env_vars, output_capture, events, li, lpos, inputs, input_assets, ci, cur,
                   produced, forwarded, seen_outputs, seen_mapping_keys, cls, post_idx, level,
                   type_check_calls>>

\* YieldStored that goes on after the first event of _store_output has been pulled,
\* whatever is left to pull
YieldStored_ResumeAfterFirst ==
    /\ pc = "yield_store"
    /\ pending # <<>>
    /\ events' = Append(events, Head(pending).event)
    /\ pending' = Tail(pending)
    /\ pc' = "type_materializations"
    /\ level' = 1
    /\ UNCHANGED <<dedup_vars, env_vars, output_capture, failure, li, lpos, inputs,
                   input_assets, ci, cur, produced, forwarded, seen_outputs,
                   seen_mapping_keys, cls, post_idx, handle_output_calls, type_check_calls,
                   stored, handle_output_res, user_exception>>

\* lines 516-541 and 365-366: the next event of _store_output is yielded; after the last
\* one _create_type_materializations starts at the step's own solid handle
YieldStored ==
    /\ pc = "yield_store"
    /\ pending # <<>>
    /\ events' = Append(events, Head(pending).event)
    /\ pending' = Tail(pending)
    /\ pc' = IF Tail(pending) = <<>> THEN "type_materializations" ELSE pc
    /\ level' = 1
    /\ UNCHANGED <<dedup_vars, env_vars, output_capture, failure, li, lpos, inputs, input_assets, ci, cur,
                   produced, forwarded, seen_outputs, seen_mapping_keys, cls, post_idx,
                   handle_output_calls, type_check_calls,
                   stored,
                   handle_output_res, user_exception>>

---------------------------------------------------------------------------
(* _create_type_materializations, lines 544-594 *)

\* lines 580-594: what the loop over the materializations yields and raises
RECURSIVE type_materialization_yields(_, _)
type_materialization_yields(output, items) ==
    IF items = <<>> THEN <<>>
    ELSE IF Head(items) # "AssetMaterialization" THEN <<Raise(BadMaterializerReturn)>>
    ELSE <<Yield([Event("STEP_MATERIALIZATION") EXCEPT
                     !.name = output.output_name,
                     !.mapping_key = output.mapping_key,
                     !.origin = "type_materializer"])>>
         \o type_materialization_yields(output, Tail(items))

\* lines 553-563: a level of the solid handle without a spec for this output
TypeMaterializationsSkipLevel ==
    /\ pc = "type_materializations"
    /\ level <= Len(type_materializer_specs)
    /\ cur.output_name \notin type_materializer_specs[level]
    /\ level' = level + 1
    /\ UNCHANGED <<dedup_vars, env_vars, output_capture, pc, failure, events, li, lpos, inputs,
                   input_assets, ci, cur, produced, forwarded, seen_outputs,
                   seen_mapping_keys, cls, post_idx, pending, handle_output_calls, type_check_calls,
                   stored,
                   handle_output_res, user_exception>>

\* lines 563-578: a level with a spec: the materializer is called inside its boundary
TypeMaterialize ==
    /\ pc = "type_materializations"
    /\ level <= Len(type_materializer_specs)
    /\ cur.output_name \in type_materializer_specs[level]
    /\ \E m \in TypeMaterializerOutcomes :
        IF m.raises # "none"
        THEN /\ Raised(user_code_error_boundary("DagsterTypeMaterializationError", {},
                                                m.raises))
             /\ user_exception' = UserException("materialize_runtime_values", m.raises)
             /\ UNCHANGED <<pending, level>>
        ELSE /\ pending' = type_materialization_yields(cur, m.items)
             /\ level' = level + 1
             /\ pc' = IF m.items = <<>> THEN pc ELSE "yield_type_materialization"
             /\ UNCHANGED <<failure, user_exception>>
    /\ UNCHANGED <<dedup_vars, env_vars, output_capture, events, li, lpos, inputs,
                   input_assets, ci, cur, produced, forwarded, seen_outputs,
                   seen_mapping_keys, cls, post_idx, handle_output_calls, type_check_calls,
                   stored, handle_output_res>>

\* lines 580-594: the next materialization is yielded, or the loop raises
YieldTypeMaterialization ==
    /\ pc = "yield_type_materialization"
    /\ pending # <<>>
    /\ IF Head(pending).raises # "none"
       THEN /\ Raised(Head(pending).raises)
            /\ UNCHANGED <<events, pending>>
       ELSE /\ events' = Append(events, Head(pending).event)
            /\ pending' = Tail(pending)
            /\ pc' = IF Tail(pending) = <<>> THEN "type_materializations" ELSE pc
            /\ UNCHANGED failure
    /\ UNCHANGED <<dedup_vars, env_vars, output_capture, li, lpos, inputs, input_assets, ci, cur,
                   produced, forwarded, seen_outputs, seen_mapping_keys, cls, post_idx, level,
                   handle_output_calls, type_check_calls,
                   stored,
                   handle_output_res, user_exception>>

\* line 553: no solid handle is left; the classifier is resumed where it yielded the output
TypeMaterializationsDone ==
    /\ pc = "type_materializations"
    /\ level > Len(type_materializer_specs)
    /\ pc' = IF cls = "loop" THEN "compute" ELSE "post"
    /\ UNCHANGED <<dedup_vars, env_vars, output_capture, failure, events, li, lpos, inputs, input_assets,
                   ci, cur, produced, forwarded, seen_outputs, seen_mapping_keys, cls,
                   post_idx, pending, level, handle_output_calls, type_check_calls,
                   stored,
                   handle_output_res, user_exception>>

---------------------------------------------------------------------------
(* The step *)

Next ==
    \/ StepStart
    \/ LoadInputSkipNothing
    \/ LoadInputBegin
    \/ LoadInputNext
    \/ LoadInputsDone
    \/ CheckInput
    \/ CheckInputDidNotPass
    \/ CheckInputNext
    \/ CheckInputsDone
    \/ PullCompute
    \/ Classify
    \/ PostLoop
    \/ DispatchMaterialization
    \/ DispatchExpectationResult
    \/ StepSuccess
    \/ TypeCheckOutput
    \/ OutputDidNotPass
    \/ StoreOutput
    \/ YieldStored
    \/ TypeMaterialize
    \/ TypeMaterializationsSkipLevel
    \/ YieldTypeMaterialization
    \/ TypeMaterializationsDone

Spec == Init /\ [][Next]_vars

---------------------------------------------------------------------------
(* _dedup_asset_partitions on its own: it is applied to a list of claims, to its own
   result, and to a reordering of the list *)

\* the lists have at most this many claims
MaxClaims == 3

step_vars == <<env_vars, output_capture, pc, failure, events, li, lpos, inputs,
               input_assets, ci, cur, produced, forwarded, seen_outputs, seen_mapping_keys,
               cls, post_idx, pending, level, handle_output_calls, type_check_calls,
               stored, handle_output_res, user_exception>>

\* the claims an input can make: an asset key with no, one or two partitions
ClaimChoices ==
    {AssetPartitions("t1", ps) : ps \in {<<>>, <<"p1">>, <<"p2">>, <<"p1", "p2">>}}
    \cup {AssetPartitions("t2", ps) : ps \in {<<>>, <<"p1">>}}
DedupInputs == SeqsUpTo(ClaimChoices, MaxClaims)

\* the reorderings of a list
Reorderings(s) == {[i \in 1..Len(s) |-> s[f[i]]] : f \in Permutations(1..Len(s))}

DedupInit ==
    /\ dedup_pc = "call"
    /\ dedup_input \in DedupInputs
    /\ deduped = <<>>
    /\ deduped_again = <<>>
    /\ reordered = <<>>
    /\ deduped_reordered = <<>>
    /\ prior_attempt_count = 0
    /\ step_inputs = <<>>
    /\ step_outputs = <<>>
    /\ compute_fn = "plain"
    /\ io_manager = "plain"
    /\ definition_asset = NoAsset
    /\ manager_asset = NoAsset
    /\ type_materializer_specs = <<{}>>
    /\ output_capture = NoCapture
    /\ pc = "start"
    /\ failure = "none"
    /\ events = <<>>
    /\ li = 1
    /\ lpos = 0
    /\ inputs = <<>>
    /\ input_assets = <<>>
    /\ ci = 1
    /\ cur = NoEvent
    /\ produced = <<>>
    /\ forwarded = <<>>
    /\ seen_outputs = {}
    /\ seen_mapping_keys = [n \in OutputNames |-> {}]
    /\ cls = "loop"
    /\ post_idx = 1
    /\ pending = <<>>
    /\ level = 1
    /\ handle_output_calls = <<>>
    /\ type_check_calls = <<>>
    /\ stored = NotStored
    /\ handle_output_res = HandleOutputReturn(TRUE, <<>>)
    /\ user_exception = NoException

\* _dedup_asset_partitions(asset_partitions)
Dedup ==
    /\ dedup_pc = "call"
    /\ deduped' \in _dedup_asset_partitions(dedup_input)
    /\ dedup_pc' = "deduped"
    /\ UNCHANGED <<step_vars, dedup_input, deduped_again, reordered, deduped_reordered>>

\* _dedup_asset_partitions applied to its own result
DedupAgain ==
    /\ dedup_pc = "deduped"
    /\ deduped_again' \in _dedup_asset_partitions(deduped)
    /\ dedup_pc' = "again"
    /\ UNCHANGED <<step_vars, dedup_input, deduped, reordered, deduped_reordered>>

\* _dedup_asset_partitions applied to a reordering of the list
DedupReordered ==
    /\ dedup_pc = "deduped"
    /\ \E r \in Reorderings(dedup_input) :
          /\ reordered' = r
          /\ deduped_reordered' \in _dedup_asset_partitions(r)
    /\ dedup_pc' = "reordered"
    /\ UNCHANGED <<step_vars, dedup_input, deduped, deduped_again>>

DedupNext ==
    \/ Dedup
    \/ DedupAgain
    \/ DedupReordered

DedupSpec == DedupInit /\ [][DedupNext]_vars

---------------------------------------------------------------------------
(* Properties of the step's event sequence *)

Last(seq) == seq[Len(seq)]
HasType(types) == {i \in 1..Len(events) : events[i].type \in types}
SameHandle(e, n, k) == e.name = n /\ e.mapping_key = k
\* the events _store_output and _create_type_materializations yield for an output
OutputStorageEvent(e) ==
    \/ e.type = "HANDLED_OUTPUT"
    \/ e.type = "STEP_MATERIALIZATION" /\ e.origin # "compute"
IsPrefix(s, t) == Len(s) <= Len(t) /\ SubSeq(t, 1, Len(s)) = s

\* C1: the first event of the step is STEP_RESTARTED (carrying the attempt count) when
\* prior_attempt_count > 0 and STEP_START otherwise; once the generator has been pulled
\* that event is there, and no later event is a start or restart event
C1_StartOrRestartFirst ==
    /\ pc # "start" => events # <<>>
    /\ events # <<>> =>
          events[1] = IF prior_attempt_count > 0
                      THEN [Event("STEP_RESTARTED") EXCEPT !.attempts = prior_attempt_count]
                      ELSE Event("STEP_START")
    /\ HasType({"STEP_START", "STEP_RESTARTED"}) \subseteq {1}

\* a retried step that ran to its end
C1_Witness ==
    /\ pc = "done"
    /\ prior_attempt_count > 0
    /\ events[1].type = "STEP_RESTARTED"
    /\ Len(events) > 3

\* C2: a run that ends without an exception has exactly one STEP_SUCCESS event, its last
\* event; STEP_SUCCESS is in no other state's event sequence, so a run an exception ends
\* has none; after the exception no event is added, and events are only ever appended
C2_SuccessLastOrFailure ==
    /\ [](/\ pc = "done" =>
                /\ failure = "none"
                /\ HasType({"STEP_SUCCESS"}) = {Len(events)}
          /\ pc # "done" => HasType({"STEP_SUCCESS"}) = {}
          /\ failure # "none" <=> pc = "raised")
    /\ [][/\ IsPrefix(events, events')
          /\ failure # "none" => events' = events /\ failure' = failure]_vars

\* a type materializer's bad return ends a step that had already yielded events
C2_Witness ==
    /\ pc = "raised"
    /\ failure = BadMaterializerReturn
    /\ Len(events) >= 4

\* C3: every materialization or handled-output event yielded for an output (by the store
\* or by a type materializer) comes after that output's STEP_OUTPUT event: the last
\* STEP_OUTPUT event before it is the one of the same output handle, and its check passed
C3_TypeCheckEventFirst ==
    \A j \in 1..Len(events) :
        OutputStorageEvent(events[j]) =>
            \E i \in 1..(j - 1) :
                /\ events[i].type = "STEP_OUTPUT"
                /\ SameHandle(events[i], events[j].name, events[j].mapping_key)
                /\ events[i].success
                /\ \A m \in (i + 1)..(j - 1) : events[m].type # "STEP_OUTPUT"

\* an output with asset materializations, a handled-output event and a type materialization
C3_Witness ==
    /\ pc = "done"
    /\ \E i, j, k \in 1..Len(events) :
        /\ events[i].type = "STEP_MATERIALIZATION" /\ events[i].origin = "output"
        /\ events[j].type = "HANDLED_OUTPUT"
        /\ events[k].type = "STEP_MATERIALIZATION" /\ events[k].origin = "type_materializer"

\* C4: a STEP_OUTPUT event carrying a failed check is the last event of the step: the
\* generator is suspended right before raising DagsterTypeCheckDidNotPass or has raised
\* it, handle_output was never invoked for that output handle, and no materialization or
\* handled-output event exists for it
C4_FailedOutputCheckEndsStep ==
    \A i \in 1..Len(events) :
        (events[i].type = "STEP_OUTPUT" /\ ~events[i].success) =>
            /\ i = Len(events)
            /\ \/ pc = "output_check_failed"
               \/ pc = "raised" /\ failure = TypeCheckDidNotPass
            /\ \A c \in 1..Len(handle_output_calls) :
                  handle_output_calls[c] #
                      [name |-> events[i].name, mapping_key |-> events[i].mapping_key]
            /\ \A j \in 1..Len(events) :
                  OutputStorageEvent(events[j]) =>
                      ~SameHandle(events[j], events[i].name, events[i].mapping_key)

\* the second output of a step fails its check after the first one was stored
C4_Witness ==
    /\ pc = "raised"
    /\ failure = TypeCheckDidNotPass
    /\ Last(events).type = "STEP_OUTPUT"
    /\ ~Last(events).success
    /\ handle_output_calls # <<>>

\* the check event of an invocation of the type checker: its type and whom it is for
IsCheckEventOf(e, call) ==
    /\ e.type = IF call.what = "input" THEN "STEP_INPUT" ELSE "STEP_OUTPUT"
    /\ SameHandle(e, call.name, call.mapping_key)
\* the checker returned, but not a TypeCheck with success=True
ReturnedFailure(tc) == tc.raises = "none" /\ (~tc.is_TypeCheck \/ ~tc.success)

\* C5 as claimed: whenever the type check of an input or output value fails for any
\* reason (success=False, not a TypeCheck, an exception), a check event with
\* success=False for that input or output has been yielded
C5_Original ==
    \A c \in 1..Len(type_check_calls) :
        (type_check_calls[c].outcome.raises # "none"
         \/ ReturnedFailure(type_check_calls[c].outcome)) =>
            \E i \in 1..Len(events) :
                IsCheckEventOf(events[i], type_check_calls[c]) /\ ~events[i].success

\* C5 amended: when the checker returns success=False or something that is not a
\* TypeCheck, the check event with success=False for that input or output is yielded, it
\* is the last event, and only DagsterTypeCheckDidNotPass follows it; when the checker
\* raises, no check event is yielded for that value and DagsterTypeCheckError is raised
C5_FailedCheckEventThenFailure ==
    /\ \A c \in 1..Len(type_check_calls) :
          LET call == type_check_calls[c]
          IN /\ ReturnedFailure(call.outcome) =>
                   /\ c = Len(type_check_calls)
                   /\ IsCheckEventOf(Last(events), call)
                   /\ ~Last(events).success
                   /\ \/ pc \in {"input_check_failed", "output_check_failed"}
                      \/ pc = "raised" /\ failure = TypeCheckDidNotPass
             /\ call.outcome.raises # "none" =>
                   /\ c = Len(type_check_calls)
                   /\ pc = "raised"
                   /\ failure = "DagsterTypeCheckError"
                   /\ \A i \in 1..Len(events) : ~IsCheckEventOf(events[i], call)
    /\ failure \in {TypeCheckDidNotPass, "DagsterTypeCheckError"} =>
          /\ type_check_calls # <<>>
          /\ ~(Last(type_check_calls).outcome.is_TypeCheck
               /\ Last(type_check_calls).outcome.success)

\* a checker that returned something that is not a TypeCheck failed the step's output
\* after an input had passed its check
C5_Witness ==
    /\ pc = "raised"
    /\ failure = TypeCheckDidNotPass
    /\ Len(type_check_calls) >= 2
    /\ Last(type_check_calls).what = "output"
    /\ ~Last(type_check_calls).outcome.is_TypeCheck
    /\ Last(events).type = "STEP_OUTPUT"
    /\ ~Last(events).success

---------------------------------------------------------------------------
(* Properties of the output classifier *)

\* the j-th value of the compute function has been classified
Classified(j) == j < Len(produced) \/ pc # "classify"
IsDeclaredDynamic(n) ==
    \E d \in 1..Len(step_outputs) : step_outputs[d].name = n /\ step_outputs[d].is_dynamic
\* the names of the outputs the compute function produced
ProducedNames == {produced[j].output_name : j \in {m \in 1..Len(produced) : IsOutput(produced[m])}}
StepOutputEventsOf(n) == {i \in 1..Len(events) : events[i].type = "STEP_OUTPUT" /\ events[i].name = n}
RequiredOutputs ==
    {d \in 1..Len(step_outputs) : ~step_outputs[d].optional /\ ~step_outputs[d].nothing}

\* C6: when the compute function yields a DynamicOutput with the name and mapping key of
\* an earlier one, the step ends right there: the second occurrence is the last value
\* pulled, and once classified it raised the duplicate-mapping-key failure, so there is no
\* STEP_SUCCESS; a DynamicOutput for a dynamic output whose mapping key differs from those
\* of all earlier occurrences of its name is forwarded, and no two forwarded dynamic
\* outputs share name and mapping key
C6_DuplicateMappingKey ==
    /\ \A i, j \in 1..Len(produced) :
          (/\ i < j
           /\ produced[i].kind = "DynamicOutput" /\ produced[j].kind = "DynamicOutput"
           /\ produced[i].output_name = produced[j].output_name
           /\ produced[i].mapping_key = produced[j].mapping_key) =>
              /\ j = Len(produced)
              /\ produced[i] \in Range(forwarded)
              /\ Classified(j) =>
                    /\ pc = "raised"
                    /\ failure = MappingKeyMultipleTimes
                    /\ HasType({"STEP_SUCCESS"}) = {}
                    /\ Len(SelectSeq(forwarded, LAMBDA o : o = produced[j])) = 1
    /\ \A j \in 1..Len(produced) :
          (/\ produced[j].kind = "DynamicOutput"
           /\ IsDeclaredDynamic(produced[j].output_name)
           /\ Classified(j)
           /\ \A i \in 1..(j - 1) :
                 ~(/\ produced[i].kind = "DynamicOutput"
                   /\ produced[i].output_name = produced[j].output_name
                   /\ produced[i].mapping_key = produced[j].mapping_key)) =>
              /\ produced[j] \in Range(forwarded)
              /\ (j = Len(produced) /\ cls = "loop") => failure \notin ClassificationFailures
    /\ \A a, b \in 1..Len(forwarded) :
          (/\ a # b
           /\ forwarded[a].kind = "DynamicOutput"
           /\ forwarded[b].kind = "DynamicOutput"
           /\ forwarded[a].output_name = forwarded[b].output_name) =>
              forwarded[a].mapping_key # forwarded[b].mapping_key

\* keys a and b were forwarded, the second a raised
C6_Witness ==
    /\ pc = "raised"
    /\ failure = MappingKeyMultipleTimes
    /\ Len(produced) = 3
    /\ Len(forwarded) = 2
    /\ produced[1].mapping_key # produced[2].mapping_key
    /\ produced[3] = produced[1]

\* C7: DagsterStepOutputNotFoundError is raised only after the compute function is
\* exhausted and every output it produced has been forwarded and has its STEP_OUTPUT
\* event, and only for a required output that is not of type Nothing and was never
\* produced; every required, never produced output the loop has passed is of type
\* Nothing and got an implicit Output(value=None); so a run that succeeds has produced or
\* synthesized every required output
C7_UnproducedRequiredOutputs ==
    /\ failure = StepOutputNotFound =>
          /\ cls = "post"
          /\ post_idx <= Len(step_outputs)
          /\ ~step_outputs[post_idx].optional
          /\ ~step_outputs[post_idx].nothing
          /\ step_outputs[post_idx].name \notin ProducedNames
          /\ IsPrefix(SelectSeq(produced, IsOutput), forwarded)
          /\ \A j \in 1..Len(produced) :
                IsOutput(produced[j]) =>
                    \E i \in 1..Len(events) :
                        /\ events[i].type = "STEP_OUTPUT"
                        /\ SameHandle(events[i], produced[j].output_name,
                                      produced[j].mapping_key)
    /\ cls = "post" =>
          \A d \in 1..Len(step_outputs) :
              (/\ d < post_idx
               /\ ~step_outputs[d].optional
               /\ step_outputs[d].name \notin ProducedNames) =>
                  /\ step_outputs[d].nothing
                  /\ ImplicitOutput(step_outputs[d].name) \in Range(forwarded)
    /\ pc = "done" => cls = "post" /\ post_idx > Len(step_outputs)
    /\ cls = "loop" => \A o \in Range(forwarded) : o \in Range(produced)

\* an implicit Nothing output was synthesized for the first declared output, then the
\* second one, required and not Nothing, was found missing
C7_Witness ==
    /\ pc = "raised"
    /\ failure = StepOutputNotFound
    /\ post_idx = 2
    /\ ImplicitOutput(step_outputs[1].name) \in Range(forwarded)
    /\ produced # <<>>

\* the step of the scenario: result required, log optional and of type Nothing, and a
\* compute function that yielded Output("result") and nothing else, run to its end
C8_Scenario ==
    /\ step_outputs = <<StepOutput("result", FALSE, FALSE, FALSE),
                        StepOutput("log", FALSE, TRUE, TRUE)>>
    /\ produced = <<Output("result", <<>>)>>
    /\ pc = "done"

\* C8 as claimed: in the scenario an implicit empty output event is yielded for log
C8_Original ==
    C8_Scenario => StepOutputEventsOf("log") # {}

\* C8 amended: in the scenario the events are the start event, the successful STEP_OUTPUT
\* event of result, the storage events of result ending in its HANDLED_OUTPUT event,
\* then STEP_SUCCESS, and no event is yielded for log; an implicit Output is only ever
\* synthesized for a declared output that is required and of type Nothing
C8_OptionalNothingNotSynthesized ==
    /\ C8_Scenario =>
          /\ Len(events) >= 4
          /\ events[1].type = "STEP_START"
          /\ events[2].type = "STEP_OUTPUT" /\ events[2].name = "result" /\ events[2].success
          /\ \A i \in 3..(Len(events) - 2) :
                events[i].type = "STEP_MATERIALIZATION" /\ events[i].name = "result"
          /\ events[Len(events) - 1].type = "HANDLED_OUTPUT"
          /\ events[Len(events) - 1].name = "result"
          /\ Last(events).type = "STEP_SUCCESS"
          /\ \A i \in 1..Len(events) : events[i].name # "log"
          /\ forwarded = produced
    /\ \A o \in Range(forwarded) :
          o.value = None =>
              \E d \in 1..Len(step_outputs) :
                  /\ step_outputs[d].name = o.output_name
                  /\ ~step_outputs[d].optional
                  /\ step_outputs[d].nothing

\* the scenario's run
C8_Witness ==
    /\ C8_Scenario
    /\ Len(events) = 4

\* C9 as claimed, for the runs that succeed: there are exactly as many STEP_OUTPUT events
\* as required outputs that are not Nothing, with pairwise distinct output names
C9_Original ==
    pc = "done" =>
        /\ Cardinality(HasType({"STEP_OUTPUT"})) = Cardinality(RequiredOutputs)
        /\ \A i, j \in HasType({"STEP_OUTPUT"}) : i # j => events[i].name # events[j].name

\* C9 amended: a run that succeeds has exactly one STEP_OUTPUT event for every required,
\* not Nothing, static output, and at least one for every such dynamic output (so at
\* least N in all; optional, Nothing and dynamic outputs add events); a static output
\* never has two STEP_OUTPUT events; and DagsterStepOutputNotFoundError means one of the
\* N outputs has no STEP_OUTPUT event
C9_RequiredOutputsProduced ==
    /\ pc = "done" =>
          /\ \A d \in RequiredOutputs :
                IF step_outputs[d].is_dynamic
                THEN Cardinality(StepOutputEventsOf(step_outputs[d].name)) >= 1
                ELSE Cardinality(StepOutputEventsOf(step_outputs[d].name)) = 1
          /\ Cardinality(HasType({"STEP_OUTPUT"})) >= Cardinality(RequiredOutputs)
    /\ \A d \in 1..Len(step_outputs) :
          ~step_outputs[d].is_dynamic =>
              Cardinality(StepOutputEventsOf(step_outputs[d].name)) <= 1
    /\ \A i \in HasType({"STEP_OUTPUT"}) :
          \E d \in 1..Len(step_outputs) : step_outputs[d].name = events[i].name
    /\ failure = StepOutputNotFound =>
          \E d \in RequiredOutputs : StepOutputEventsOf(step_outputs[d].name) = {}

\* a step with one required output and one optional output that produced both
C9_Witness ==
    /\ pc = "done"
    /\ Cardinality(RequiredOutputs) = 1
    /\ Cardinality(HasType({"STEP_OUTPUT"})) = 2
    /\ \A d \in 1..Len(step_outputs) : ~step_outputs[d].is_dynamic /\ ~step_outputs[d].nothing

---------------------------------------------------------------------------
(* Properties of _store_output *)

\* the events _store_output yields for the stored output, those not yet pulled included
StoreEvents ==
    SelectSeq(events \o [i \in 1..Len(pending) |-> pending[i].event],
              LAMBDA e : /\ e.type = "STEP_MATERIALIZATION"
                         /\ e.origin = "output"
                         /\ SameHandle(e, stored.output.output_name, stored.output.mapping_key))
\* the metadata entries among the items handle_output returned
ManagerEntries ==
    SelectSeq(stored.handled.items,
              LAMBDA elt : elt.kind \in {"EventMetadataEntry", "PartitionSpecificMetadataEntry"})
\* the asset claim in force (at most one of the two when the store completed)
ClaimedAsset == definition_asset \o manager_asset
\* the partitions the claim resolves to
ResolvedPartitions ==
    IF ClaimedAsset = <<>> THEN {}
    ELSE IF ClaimedAsset[1].partitions = <<>> THEN {None}
    ELSE Range(ClaimedAsset[1].partitions)
\* what a partition's materialization shows of a list of entries
RECURSIVE ShownIn(_, _)
ShownIn(p, entries) ==
    IF entries = <<>> THEN <<>>
    ELSE (IF Head(entries).kind = "EventMetadataEntry" THEN <<Head(entries)>>
          ELSE IF Head(entries).partition = p THEN <<EventMetadataEntry(Head(entries).label)>>
          ELSE <<>>)
         \o ShownIn(p, Tail(entries))

\* C10: when a store completes there is one materialization event per resolved partition
\* of the claimed asset; the metadata of the event of partition p is exactly: the
\* output's untargeted entries and its entries targeted at p, in the output's order, then
\* the manager's untargeted entries and its entries targeted at p, in the manager's order;
\* so a targeted entry is in the event of its partition and in no other, and an
\* untargeted entry is in every event
C10_MetadataPerPartition ==
    stored # NotStored =>
        LET se == StoreEvents
            out_entries == stored.output.metadata_entries
            mgr_entries == ManagerEntries
        IN
           /\ {se[i].partition : i \in 1..Len(se)} = ResolvedPartitions
           /\ \A i \in 1..Len(se) :
                 /\ se[i].asset_key = ClaimedAsset[1].asset_key
                 /\ se[i].metadata =
                       ShownIn(se[i].partition, out_entries)
                       \o ShownIn(se[i].partition, mgr_entries)
           /\ \A x \in Range(out_entries) \cup Range(mgr_entries) :
                 \A i \in 1..Len(se) :
                     IF x.kind = "PartitionSpecificMetadataEntry"
                     THEN /\ x.partition \in ResolvedPartitions
                          /\ EventMetadataEntry(x.label) \in Range(se[i].metadata)
                                <=> se[i].partition = x.partition
                     ELSE x \in Range(se[i].metadata)

\* two partitions; the output and the manager each gave an untargeted entry and one
\* targeted at p1
C10_Witness ==
    /\ pc = "done"
    /\ Len(StoreEvents) = 2
    /\ StoreEvents[1].partition = "p1"
    /\ StoreEvents[1].metadata = <<EventMetadataEntry("m1"), EventMetadataEntry("m2"),
                                   EventMetadataEntry("m3"), EventMetadataEntry("m4")>>
    /\ StoreEvents[2].partition = "p2"
    /\ StoreEvents[2].metadata = <<EventMetadataEntry("m1"), EventMetadataEntry("m3")>>

\* the events yielded so far, then those of the running sub-generator not yet pulled
AllEvents == events \o [i \in 1..Len(pending) |-> pending[i].event]
\* where the STEP_OUTPUT event of the stored output is
StoredAt ==
    CHOOSE i \in 1..Len(events) :
        /\ events[i].type = "STEP_OUTPUT"
        /\ SameHandle(events[i], stored.output.output_name, stored.output.mapping_key)
\* the partitions of the (asset, partition) pairs the claim resolves to, in order
ResolvedPairs ==
    IF ClaimedAsset = <<>> THEN <<>>
    ELSE IF ClaimedAsset[1].partitions = <<>> THEN <<None>>
    ELSE ClaimedAsset[1].partitions
\* the materialization records among the items handle_output returned, in order
ManagerMaterializations ==
    SelectSeq(stored.handled.items, LAMBDA elt : elt.kind = "AssetMaterialization")
IsStoredHandle(e) == SameHandle(e, stored.output.output_name, stored.output.mapping_key)

\* C11: when the store of an output completes, the events that follow the output's
\* STEP_OUTPUT event are, in this order: one materialization event per resolved (asset,
\* partition) pair, in the order of the pairs (none when no asset is claimed); one
\* materialization event per AssetMaterialization handle_output returned, in the order
\* returned; one HANDLED_OUTPUT event whose metadata is exactly the untargeted entries
\* handle_output returned, in order; and _store_output yields no other event for it
C11_StoreEventsInOrder ==
    stored # NotStored =>
        LET np == Len(ResolvedPairs)
            mats == ManagerMaterializations
            nm == Len(mats)
            at == StoredAt
            all == AllEvents
        IN /\ Len(all) >= at + np + nm + 1
           /\ \A k \in 1..np :
                 /\ all[at + k].type = "STEP_MATERIALIZATION"
                 /\ all[at + k].origin = "output"
                 /\ IsStoredHandle(all[at + k])
                 /\ all[at + k].asset_key = ClaimedAsset[1].asset_key
                 /\ all[at + k].partition = ResolvedPairs[k]
           /\ \A k \in 1..nm :
                 /\ all[at + np + k].type = "STEP_MATERIALIZATION"
                 /\ all[at + np + k].origin = "io_manager"
                 /\ IsStoredHandle(all[at + np + k])
                 /\ all[at + np + k].asset_key = mats[k].label
           /\ all[at + np + nm + 1].type = "HANDLED_OUTPUT"
           /\ IsStoredHandle(all[at + np + nm + 1])
           /\ all[at + np + nm + 1].metadata =
                 SelectSeq(stored.handled.items,
                           LAMBDA elt : elt.kind = "EventMetadataEntry")
           /\ \A j \in 1..Len(all) :
                 (/\ IsStoredHandle(all[j])
                  /\ \/ all[j].type = "HANDLED_OUTPUT"
                     \/ /\ all[j].type = "STEP_MATERIALIZATION"
                        /\ all[j].origin \in {"output", "io_manager"}) =>
                     j \in (at + 1)..(at + np + nm + 1)

\* two partitions, an output with metadata of its own, and a manager that returned two
\* materializations
C11_Witness ==
    /\ pc = "done"
    /\ Len(ResolvedPairs) = 2
    /\ stored.output.metadata_entries # <<>>
    /\ stored.handled.items = <<StoreItem("AssetMaterialization", None, "mm2"),
                                StoreItem("AssetMaterialization", None, "mm")>>
    /\ Len(events) = StoredAt + 6

\* handle_output has been invoked and returned (handle_output_res is what it returned)
HandleOutputReturned == handle_output_calls # <<>> /\ handle_output_res.raises = "none"
\* the events of _store_output for a handle, those not yet pulled included
StoreEventsOf(handle) ==
    SelectSeq(AllEvents,
              LAMBDA e : /\ SameHandle(e, handle.name, handle.mapping_key)
                         /\ \/ e.type = "HANDLED_OUTPUT"
                            \/ /\ e.type = "STEP_MATERIALIZATION"
                               /\ e.origin \in {"output", "io_manager"})

\* C12: when handle_output returned a sequence with an item that is neither an
\* AssetMaterialization nor a metadata entry, _store_output has raised the
\* DagsterInvariantViolationError naming the returned value, and no HANDLED_OUTPUT event
\* and no materialization event of the store exists for that output, whatever items came
\* before the offending one; that failure is raised in no other case
C12_BadManagerReturn ==
    /\ (/\ HandleOutputReturned
        /\ \E i \in 1..Len(handle_output_res.items) : handle_output_res.items[i].kind = "other") =>
           /\ pc = "raised"
           /\ failure = BadManagerReturn
           /\ StoreEventsOf(Last(handle_output_calls)) = <<>>
           /\ pending = <<>>
           /\ Last(events).type = "STEP_OUTPUT"
    /\ failure = BadManagerReturn =>
           /\ HandleOutputReturned
           /\ \E i \in 1..Len(handle_output_res.items) : handle_output_res.items[i].kind = "other"

\* an asset is claimed, and the manager returned a materialization and then something else
C12_Witness ==
    /\ failure = BadManagerReturn
    /\ ClaimedAsset # <<>>
    /\ handle_output_res.items = <<StoreItem("AssetMaterialization", None, "mm"),
                                   StoreItem("other", None, "x")>>

\* both the OutputDefinition and the IO manager claim an asset for the output
BothClaim == definition_asset # NoAsset /\ manager_asset # NoAsset
\* an output passed its type check and the consumer pulled past its STEP_OUTPUT event
StoreEntered ==
    \/ pc \in {"yield_store", "type_materializations", "yield_type_materialization", "done"}
    \/ handle_output_calls # <<>>
    \/ /\ pc = "raised"
       /\ events # <<>>
       /\ Last(events).type = "STEP_OUTPUT"
       /\ Last(events).success
       /\ failure # "DagsterTypeCheckError"

\* C13: when both the OutputDefinition and the IO manager claim an asset, the first output
\* that reaches _store_output raises the DagsterInvariantViolationError of
\* _asset_partitions_for_output: handle_output is never invoked, nothing is stored and no
\* materialization or HANDLED_OUTPUT event of a store exists; when at most one of them
\* claims an asset that failure is never raised, and the materializations of the store
\* carry the asset key of the one claim (there are none without a claim)
C13_BothClaimAsset ==
    /\ BothClaim =>
          /\ handle_output_calls = <<>>
          /\ stored = NotStored
          /\ \A i \in 1..Len(AllEvents) :
                /\ AllEvents[i].type # "HANDLED_OUTPUT"
                /\ AllEvents[i].origin \notin {"output", "io_manager", "type_materializer"}
          /\ StoreEntered => pc = "raised" /\ failure = BothClaimAsset
    /\ failure = BothClaimAsset =>
          /\ BothClaim
          /\ Last(events).type = "STEP_OUTPUT"
          /\ Last(events).success
    /\ ~BothClaim =>
          \A i \in 1..Len(AllEvents) :
              AllEvents[i].origin = "output" =>
                  /\ ClaimedAsset # <<>>
                  /\ AllEvents[i].asset_key = ClaimedAsset[1].asset_key

\* both claim, and the step failed on its first output after its type check had passed
C13_Witness ==
    /\ BothClaim
    /\ pc = "raised"
    /\ failure = BothClaimAsset
    /\ Last(type_check_calls).what = "output"
    /\ Last(type_check_calls).outcome.success

---------------------------------------------------------------------------
(* Properties of the error boundaries *)

\* user code raised Failure or RetryRequested inside one of the step's boundaries
ControlFlowRaised ==
    /\ user_exception.exc \in ControlFlowExceptions
    /\ user_exception.raised_in \in {"compute", "handle_output", "input type_check",
                                     "output type_check", "materialize_runtime_values"}

---------------------------------------------------------------------------
(* Properties of _dedup_asset_partitions *)

\* a list of AssetPartitions as a set of assets, each with a set of partitions
AsSets(aps) ==
    {[asset_key |-> aps[i].asset_key, partitions |-> Range(aps[i].partitions)] :
        i \in 1..Len(aps)}
\* the partitions a list gives for an asset key
PartitionsOf(aps, k) ==
    UNION {Range(aps[i].partitions) : i \in {j \in 1..Len(aps) : aps[j].asset_key = k}}

\* C15: _dedup_asset_partitions applied to its own result returns the same assets with
\* the same partition sets, one entry each; applied to any reordering of its argument it
\* returns, for every asset key, the same partition set (the results compared as sets of
\* assets each with a set of partitions)
C15_DedupIdempotentAnyOrder ==
    /\ dedup_pc = "again" =>
          /\ AsSets(deduped_again) = AsSets(deduped)
          /\ Len(deduped_again) = Len(deduped)
          /\ Len(deduped) = Cardinality(AsSets(deduped))
    /\ dedup_pc = "reordered" =>
          /\ AsSets(deduped_reordered) = AsSets(deduped)
          /\ \A i \in 1..Len(dedup_input) :
                PartitionsOf(deduped_reordered, dedup_input[i].asset_key)
                    = PartitionsOf(deduped, dedup_input[i].asset_key)

\* three claims of two assets, one of them claimed with different partitions, reordered
\* so that the result lists the assets in another order
C15_Witness ==
    /\ dedup_pc = "reordered"
    /\ Len(dedup_input) = 3
    /\ dedup_input[1].asset_key = dedup_input[3].asset_key
    /\ dedup_input[1].partitions # dedup_input[3].partitions
    /\ dedup_input[1].partitions # <<>>
    /\ dedup_input[3].partitions # <<>>
    /\ Len(deduped) = 2
    /\ deduped_reordered[1].asset_key # deduped[1].asset_key

---------------------------------------------------------------------------
(* Properties of the dispatch of outputs *)

\* the list of input assets a materialization event carries, empty when it carries none
AttachedInputAssets(e) == IF e.input_assets = <<>> THEN <<>> ELSE e.input_assets[1]

\* C16 as claimed: every materialization event of the step, whether of the store of an
\* output, of the IO manager, of the compute function or of a type materializer, carries
\* the deduplicated list of input assets
C16_InputAssetsOnEveryMaterialization ==
    \A i \in 1..Len(events) :
        events[i].type = "STEP_MATERIALIZATION" =>
            AttachedInputAssets(events[i]) = input_assets

\* the handles of the outputs whose type check passed, in the order of the checks
PassedOutputs ==
    LET passed == SelectSeq(type_check_calls,
                            LAMBDA c : /\ c.what = "output"
                                       /\ c.outcome.raises = "none"
                                       /\ c.outcome.is_TypeCheck
                                       /\ c.outcome.success)
    IN [i \in 1..Len(passed) |-> [name |-> passed[i].name,
                                  mapping_key |-> passed[i].mapping_key]]
\* the store of the output checked last has not been entered yet
StoreNotEntered == pc = "store"
Front(s) == SubSeq(s, 1, Len(s) - 1)
NoDuplicates(s) == \A i, j \in 1..Len(s) : i # j => s[i] # s[j]

\* C17 as claimed: handle_output has been invoked exactly once for each output whose type
\* check passed, in their order, and for no other output
C17_Original ==
    /\ handle_output_calls = IF StoreNotEntered THEN Front(PassedOutputs) ELSE PassedOutputs
    /\ NoDuplicates(handle_output_calls)

\* C17 amended: unless both the OutputDefinition and the IO manager claim an asset,
\* handle_output has been invoked exactly once for each forwarded output whose type check
\* passed, in their order, and for no other output: never for an output whose check
\* failed or raised, never twice for a handle; when both claim an asset it is never
\* invoked, the first output that passes its check ends the step
C17_HandleOutputOncePerPassedOutput ==
    /\ ~BothClaim =>
          handle_output_calls = IF StoreNotEntered THEN Front(PassedOutputs)
                                ELSE PassedOutputs
    /\ BothClaim => handle_output_calls = <<>> /\ Len(PassedOutputs) <= 1
    /\ NoDuplicates(handle_output_calls)
    /\ IsPrefix(handle_output_calls,
                [i \in 1..Len(forwarded) |-> StepOutputHandle(forwarded[i])])

\* two outputs were stored, the third failed its type check
C17_Witness ==
    /\ Len(handle_output_calls) = 2
    /\ Len(type_check_calls) = 3
    /\ pc = "raised"
    /\ failure = TypeCheckDidNotPass

\* the forwarded outputs that _type_check_and_store_output has been entered for
DispatchedOutputs ==
    IF pc = "dispatch" /\ IsOutput(cur) THEN Front(forwarded) ELSE forwarded
CapturedHandles == {c.handle : c \in output_capture.entries}

\* C18: with an output_capture given, it holds exactly the values of the outputs handed
\* to _type_check_and_store_output so far, each under its handle (output name and mapping
\* key); so every output the type checker or handle_output was invoked for had been
\* recorded before, and the record is there when the type check or the store failed;
\* with no output_capture nothing is recorded
C18_OutputCapturedBeforeCheck ==
    /\ output_capture.enabled =>
          /\ output_capture.entries =
                {[handle |-> StepOutputHandle(DispatchedOutputs[i]),
                  value |-> DispatchedOutputs[i].value] : i \in 1..Len(DispatchedOutputs)}
          /\ \A c \in 1..Len(type_check_calls) :
                type_check_calls[c].what = "output" =>
                    [name |-> type_check_calls[c].name,
                     mapping_key |-> type_check_calls[c].mapping_key] \in CapturedHandles
          /\ \A c \in 1..Len(handle_output_calls) : handle_output_calls[c] \in CapturedHandles
          /\ (\/ pc = "store"
              \/ /\ failure \in {TypeCheckDidNotPass, "DagsterTypeCheckError",
                                 "DagsterExecutionHandleOutputError",
                                 BadManagerReturn, BothClaimAsset}
                 /\ type_check_calls # <<>>
                 /\ Last(type_check_calls).what = "output") =>
                StepOutputHandle(cur) \in CapturedHandles
    /\ ~output_capture.enabled => output_capture = NoCapture

\* the type checker raised for the step's output: the value is in the capture although
\* handle_output was never invoked
C18_Witness ==
    /\ output_capture.enabled
    /\ pc = "raised"
    /\ failure = "DagsterTypeCheckError"
    /\ handle_output_calls = <<>>
    /\ output_capture.entries = {[handle |-> [name |-> "result", mapping_key |-> None],
                                  value |-> "value"]}

---------------------------------------------------------------------------
(* Properties of what the classifier forwards *)

\* C19 as claimed: every output the classifier forwards has a declared name; a plain
\* Output is for a static output no earlier forwarded output has the name of; a
\* DynamicOutput is for a dynamic output, with a mapping key no earlier forwarded
\* DynamicOutput of that name has
C19_ForwardedOutputsWellShaped ==
    \A i \in 1..Len(forwarded) :
        LET o == forwarded[i]
        IN /\ has_step_output(step_outputs, o.output_name)
           /\ o.kind = "Output" =>
                 /\ ~IsDeclaredDynamic(o.output_name)
                 /\ \A j \in 1..(i - 1) : forwarded[j].output_name # o.output_name
           /\ o.kind = "DynamicOutput" =>
                 /\ IsDeclaredDynamic(o.output_name)
                 /\ \A j \in 1..(i - 1) :
                       ~(/\ forwarded[j].output_name = o.output_name
                         /\ forwarded[j].mapping_key = o.mapping_key)

\* C20 as claimed: an exception other than Failure and RetryRequested that the IO manager
\* raises, in handle_output or while the sequence it returned is iterated, ends the step
\* as DagsterExecutionHandleOutputError
C20_StoreExceptionsNormalized ==
    (/\ user_exception.raised_in \in {"handle_output", "iteration of handle_output_res"}
     /\ user_exception.exc \notin ControlFlowExceptions) =>
        failure = "DagsterExecutionHandleOutputError"

---------------------------------------------------------------------------
(* Properties of the compute boundary and of the order of the collaborators' calls *)

\* the compute function raised when it was pulled
ComputeRaised == user_exception.raised_in = "compute"
EventsOfType(t) == SelectSeq(events, LAMBDA e : e.type = t)
ProducedOfKind(k) == SelectSeq(produced, LAMBDA v : v.kind = k)

\* C21: an exception the compute function raises on any pull, the first or a later one,
\* leaves the step as DagsterExecutionStepExecutionError unless it is a Failure or a
\* RetryRequested, which leave unchanged; by then every value pulled before has been
\* processed to its end: each output was forwarded and has its STEP_OUTPUT and
\* HANDLED_OUTPUT events, each materialization and expectation result has its event, and
\* no event is left unpulled
C21_ComputeBoundaryEveryPull ==
    ComputeRaised =>
        /\ pc = "raised"
        /\ failure = IF user_exception.exc \in ControlFlowExceptions
                     THEN user_exception.exc
                     ELSE "DagsterExecutionStepExecutionError"
        /\ cls = "loop"
        /\ forwarded = SelectSeq(produced, IsOutput)
        /\ \A j \in 1..Len(produced) :
              IsOutput(produced[j]) =>
                  /\ \E i \in 1..Len(events) :
                        /\ events[i].type = "STEP_OUTPUT"
                        /\ events[i].success
                        /\ SameHandle(events[i], produced[j].output_name,
                                      produced[j].mapping_key)
                  /\ \E i \in 1..Len(events) :
                        /\ events[i].type = "HANDLED_OUTPUT"
                        /\ SameHandle(events[i], produced[j].output_name,
                                      produced[j].mapping_key)
        /\ Len(SelectSeq(events, LAMBDA e : e.origin = "compute"))
              = Len(ProducedOfKind("AssetMaterialization"))
        /\ Len(EventsOfType("STEP_EXPECTATION_RESULT")) = Len(ProducedOfKind("ExpectationResult"))
        /\ Len(EventsOfType("STEP_OUTPUT")) = Len(forwarded)
        /\ pending = <<>>

\* the compute function yielded an output and a materialization and raised on the third
\* pull
C21_Witness ==
    /\ ComputeRaised
    /\ user_exception.exc = "Exception"
    /\ failure = "DagsterExecutionStepExecutionError"
    /\ Len(produced) = 2
    /\ IsOutput(produced[1])
    /\ produced[2].kind = "AssetMaterialization"
    /\ Last(events).origin = "compute"

\* the declared inputs whose type is not Nothing, and their names in declaration order
NonNothingInputs == SelectSeq(step_inputs, LAMBDA si : ~si.nothing)
NonNothingNames == [i \in 1..Len(NonNothingInputs) |-> NonNothingInputs[i].name]
NothingNames == {step_inputs[j].name : j \in {i \in 1..Len(step_inputs) : step_inputs[i].nothing}}
\* the inputs whose source has been asked for its asset claims (line 287)
ClaimingInputs ==
    {j \in 1..Len(step_inputs) :
        /\ ~step_inputs[j].nothing
        /\ j < li \/ (j = li /\ lpos >= 1)}
InputCheckCalls == SelectSeq(type_check_calls, LAMBDA c : c.what = "input")
InputCheckEvents == EventsOfType("STEP_INPUT")
\* both loops over the inputs have ended
InputPhaseOver == li > Len(step_inputs) /\ ci > Len(inputs) /\ pc \notin {"load", "check_inputs"}
\* the compute function has been asked for a value
ComputeInvoked == produced # <<>> \/ cls = "post" \/ ComputeRaised

\* C22: the input check events are those of the non-Nothing inputs in declaration order,
\* one each once the input phase is over; the first of them comes after every input has
\* been loaded, so after every LOADED_INPUT event; a Nothing input has no load event, no
\* type check and no asset claim in input_assets, which holds the claims of the other
\* inputs only; after a check that failed or raised, no other input is checked and the
\* compute function is never asked for a value
C22_InputChecksAfterAllLoads ==
    LET check_events == InputCheckEvents
        check_calls == InputCheckCalls
        names == NonNothingNames
        claiming == ClaimingInputs
    IN /\ IsPrefix(inputs, names)
       /\ Len(check_events) <= Len(inputs)
       /\ \A i \in 1..Len(check_events) : check_events[i].name = inputs[i]
       /\ Len(check_calls) <= Len(inputs)
       /\ \A i \in 1..Len(check_calls) : check_calls[i].name = inputs[i]
       /\ InputPhaseOver =>
             /\ inputs = names
             /\ Len(check_events) = Len(names)
             /\ \A i \in 1..Len(check_events) : check_events[i].success
       /\ check_calls # <<>> => li > Len(step_inputs) /\ inputs = names
       /\ \A i, j \in 1..Len(events) :
             (i < j /\ events[i].type = "STEP_INPUT") => events[j].type # "LOADED_INPUT"
       /\ \A i \in 1..Len(events) :
             events[i].type \in {"LOADED_INPUT", "STEP_INPUT"} => events[i].name \notin NothingNames
       /\ \A i \in 1..Len(type_check_calls) :
             type_check_calls[i].what = "input" => type_check_calls[i].name \notin NothingNames
       /\ \A i \in 1..Len(input_assets) :
             LET k == input_assets[i].asset_key
             IN /\ \E j \in claiming : \E c \in 1..Len(step_inputs[j].assets) :
                       step_inputs[j].assets[c].asset_key = k
                /\ Range(input_assets[i].partitions)
                      \subseteq UNION {PartitionsOf(step_inputs[j].assets, k) : j \in claiming}
       /\ \A j \in claiming : \A c \in 1..Len(step_inputs[j].assets) :
             \E i \in 1..Len(input_assets) :
                /\ input_assets[i].asset_key = step_inputs[j].assets[c].asset_key
                /\ Range(step_inputs[j].assets[c].partitions)
                      \subseteq Range(input_assets[i].partitions)
       /\ \A i \in 1..Len(check_calls) :
             LET tc == check_calls[i].outcome
             IN (tc.raises # "none" \/ ~_do_type_check(tc).success) =>
                   /\ i = Len(check_calls)
                   /\ Len(check_events) = IF tc.raises # "none" THEN i - 1 ELSE i
                   /\ pc \in {"input_check_failed", "raised"}
                   /\ pc = "raised" =>
                         failure = IF tc.raises # "none" THEN "DagsterTypeCheckError"
                                   ELSE TypeCheckDidNotPass
                   /\ ~ComputeInvoked
       /\ ComputeInvoked => InputPhaseOver

\* a step whose first input is Nothing and with claims of its own, whose second input was
\* loaded and checked, and whose compute function has yielded a value
C22_Witness ==
    /\ Len(step_inputs) = 2
    /\ step_inputs[1].nothing
    /\ step_inputs[1].assets # <<>>
    /\ inputs = <<step_inputs[2].name>>
    /\ Len(InputCheckEvents) = 1
    /\ \E i \in 1..Len(events) : events[i].type = "LOADED_INPUT"
    /\ input_assets # <<>>
    /\ produced # <<>>

\* the HANDLED_OUTPUT event of an output has been pulled
HandledOutputPulled(output) ==
    \E i \in 1..Len(events) :
        /\ events[i].type = "HANDLED_OUTPUT"
        /\ SameHandle(events[i], output.output_name, output.mapping_key)
\* the consumer has pulled every event of the store of `cur` and of its type materializers
OutputEventsPulled ==
    /\ pending = <<>>
    /\ level > Len(type_materializer_specs)
    /\ HandledOutputPulled(cur)
    /\ OutputStorageEvent(Last(events))
    /\ SameHandle(Last(events), cur.output_name, cur.mapping_key)
\* a step of the behaviour resumes the compute function: it yields a value, ends or raises
ComputeResumed ==
    \/ produced' # produced
    \/ cur' # cur /\ cls = "loop"
    \/ user_exception' # user_exception /\ user_exception'.raised_in = "compute"
\* a step of the behaviour calls a collaborator: a source, a type check, the compute
\* function, the IO manager, a type materializer
CollaboratorCalled ==
    \/ ComputeResumed
    \/ type_check_calls' # type_check_calls
    \/ handle_output_calls' # handle_output_calls
    \/ pc = "load" /\ (lpos' # lpos \/ pc' = "raised")
    \/ pc = "type_materializations" /\ (pending' # pending \/ pc' = "raised" \/
                                        (level' # level
                                         /\ cur.output_name \in type_materializer_specs[level]))

\* C23: every step between two pulls of the consumer yields at most one event and ends
\* with it; the compute function is resumed after an output only when the consumer has
\* pulled that output's events through HANDLED_OUTPUT and the last type materialization;
\* handle_output and the type materializers are called for an output only when nothing
\* is left unpulled, the HANDLED_OUTPUT events of the outputs forwarded before are among
\* the pulled events and the last pulled event belongs to the output itself; nothing is
\* ever taken back from the calls of handle_output, and a step in which no event is
\* pulled after the last one calls no collaborator beyond the one whose event it yields
C23_PullDriven ==
    [][ /\ Len(events') <= Len(events) + 1
        /\ IsPrefix(events, events')
        /\ IsPrefix(handle_output_calls, handle_output_calls')
        /\ Len(handle_output_calls') <= Len(handle_output_calls) + 1
        /\ (ComputeResumed /\ IsOutput(cur)) => OutputEventsPulled
        /\ ComputeResumed =>
              /\ pending = <<>>
              /\ events' = events
              /\ handle_output_calls' = handle_output_calls
              /\ type_check_calls' = type_check_calls
              /\ \A j \in 1..Len(forwarded) : HandledOutputPulled(forwarded[j])
        /\ handle_output_calls' # handle_output_calls =>
              /\ pending = <<>>
              /\ events' = events
              /\ Last(events).type = "STEP_OUTPUT"
              /\ Last(events).success
              /\ SameHandle(Last(events), cur.output_name, cur.mapping_key)
              /\ Last(forwarded) = cur
              /\ \A j \in 1..(Len(forwarded) - 1) : HandledOutputPulled(forwarded[j])
        /\ (pc = "type_materializations" /\ CollaboratorCalled) =>
              /\ pending = <<>>
              /\ events' = events
              /\ HandledOutputPulled(cur)
        /\ events' # events =>
              /\ ~ComputeResumed
              /\ handle_output_calls' = handle_output_calls
              /\ pending' = pending \/ pending' = Tail(pending)
              /\ type_check_calls' # type_check_calls =>
                    /\ Front(type_check_calls') = type_check_calls
                    /\ Last(events').type \in {"STEP_INPUT", "STEP_OUTPUT"}
                    /\ Last(events').name = Last(type_check_calls').name
        /\ pc = "raised" => ~CollaboratorCalled
      ]_vars

\* handle_output has been called for a second output while every event of the first,
\* its materializations, its HANDLED_OUTPUT event and a type materialization, has been
\* pulled, and the events of the second are being pulled
C23_Witness ==
    /\ Len(handle_output_calls) = 2
    /\ Len(forwarded) = 2
    /\ pc = "yield_store"
    /\ pending # <<>>
    /\ HandledOutputPulled(forwarded[1])
    /\ ~HandledOutputPulled(forwarded[2])
    /\ \E i \in 1..Len(events) :
          /\ events[i].type = "STEP_MATERIALIZATION"
          /\ events[i].origin = "type_materializer"
          /\ SameHandle(events[i], forwarded[1].output_name, forwarded[1].mapping_key)
    /\ \E i \in 1..Len(events) :
          /\ events[i].type = "STEP_MATERIALIZATION"
          /\ events[i].origin = "output"
          /\ SameHandle(events[i], forwarded[1].output_name, forwarded[1].mapping_key)

---------------------------------------------------------------------------
(* Properties of the result of _dedup_asset_partitions *)

\* the asset keys of a list of claims, and the claims of one key
ClaimedKeys(aps) == {aps[i].asset_key : i \in 1..Len(aps)}
ClaimsOf(aps, k) == {i \in 1..Len(aps) : aps[i].asset_key = k}

\* C24: the result of _dedup_asset_partitions has one entry for each asset key of its
\* argument and no other; the entry lists, each once, the partitions of all the claims of
\* its key: none when every claim of the key had no partitions, and just the explicit
\* partitions when some claims of the key had none and others had some
C24_OneEntryPerKeyUnion ==
    dedup_pc # "call" =>
        /\ Len(deduped) = Cardinality(ClaimedKeys(dedup_input))
        /\ ClaimedKeys(deduped) = ClaimedKeys(dedup_input)
        /\ \A k \in ClaimedKeys(dedup_input) : Cardinality(ClaimsOf(deduped, k)) = 1
        /\ \A i \in 1..Len(deduped) :
              LET k == deduped[i].asset_key
                  claims == ClaimsOf(dedup_input, k)
                  explicit == {j \in claims : dedup_input[j].partitions # <<>>}
              IN /\ Range(deduped[i].partitions) = PartitionsOf(dedup_input, k)
                 /\ Len(deduped[i].partitions) = Cardinality(Range(deduped[i].partitions))
                 /\ explicit = {} => deduped[i].partitions = <<>>
                 /\ (explicit # {} /\ explicit # claims) =>
                       /\ deduped[i].partitions # <<>>
                       /\ Range(deduped[i].partitions)
                             = UNION {Range(dedup_input[j].partitions) : j \in explicit}

\* an asset claimed with no partitions and then with two, and another claimed with no
\* partitions only
C24_Witness ==
    /\ dedup_pc = "deduped"
    /\ Len(dedup_input) = 3
    /\ dedup_input[1].asset_key = dedup_input[2].asset_key
    /\ dedup_input[1].partitions = <<>>
    /\ Len(dedup_input[2].partitions) = 2
    /\ dedup_input[3].asset_key # dedup_input[1].asset_key
    /\ dedup_input[3].partitions = <<>>
    /\ Len(deduped) = 2
    /\ Len(deduped[1].partitions) = 2
    /\ deduped[2].partitions = <<>>

====
